---- MODULE Spec2Model ----
(***************************************************************************)
(* Ledger-derived wallets, the order state machine and the referral        *)
(* engine of the gaming-credit backend (src/backend), and the idempotent   *)
(* order creation of the v1 API (src/backend/api/v1).                      *)
(*                                                                         *)
(* Amounts are integers in cents.  An optional column (original_amount,    *)
(* referred_by_code, idempotency_key) is a sequence: << >> is NULL/None    *)
(* and <<v>> is the value v.                                               *)
(***************************************************************************)
EXTENDS Integers, Sequences, FiniteSets, TLC

\* ------------------------------------------------------------------ bounds
MaxRows == 2
MaxOrders == 1

\* ------------------------------------------------------------ enumerations
ClientIds == {"c1", "c2"}

TransactionType ==
    {"IN", "OUT", "ADJUST", "REFERRAL_EARN", "REAL_LOAD", "BONUS_EARN", "BONUS_LOAD", "BONUS_ADJUST"}

TransactionStatus == {"pending", "confirmed", "rejected"}

OrderStatus ==
    {"draft", "pending_screenshot", "pending_confirmation", "pending_payout",
     "confirmed", "rejected", "cancelled"}

PendingStates == {"pending_confirmation", "pending_payout", "pending_screenshot"}

TerminalStates == {"confirmed", "rejected", "cancelled"}

None == << >>

Some(v) == <<v>>

\* Python truthiness of an optional number: None and 0 are both falsy.
Truthy(x) == x # None /\ x[1] # 0

\* Python `a or b` on an optional number a and a number b.
OrElse(a, b) == IF Truthy(a) THEN a[1] ELSE b

\* Mutant of Max0: the clamp is missing.
Max0_unclamped(x) == x

\* max(0, x)
Max0(x) == IF x > 0 THEN x ELSE 0

\* ------------------------------------------------------------------- state
VARIABLES
    clients,      \* clients table: client_id -> referral bookkeeping columns
    referrals,    \* client_referrals table, keyed by referred_client_id (UNIQUE)
    orders,       \* orders table: order_id -> row
    ledger,       \* ledger_transactions table, in insertion order
    api_orders,   \* api_orders table of the v1 API, in insertion order
    api_audit_logs, \* api_audit_logs table of the v1 API, in insertion order
    api_webhooks, \* api_webhooks table: webhook_id -> row
    api_webhook_deliveries, \* api_webhook_deliveries table: delivery_id -> row
    delivery_tasks, \* the deliver_webhook task of each delivery: where it stands
    settings,     \* global_settings row (the defaults when the row is absent)
    procs,        \* requests and process_referral_on_deposit calls in progress: position and locals
    settings_cache, \* _settings_cache of utils.py: data and fetched_at
    clock,        \* the time datetime.now reads, in seconds
    resp          \* what the last handler returned

vars == <<clients, referrals, orders, ledger, api_orders, api_audit_logs, api_webhooks,
          api_webhook_deliveries, delivery_tasks, settings, procs, settings_cache, clock,
          resp>>

\* The tables of the backend, the tables of the v1 API, the webhook tables.
backendTables == <<clients, referrals, orders, ledger>>

orderTables == <<api_orders, api_audit_logs>>

webhookTables == <<api_webhooks, api_webhook_deliveries, delivery_tasks>>

\* The settings cache of the process and the clock its ages are measured on.
cacheState == <<settings_cache, clock>>

\* invalidate_settings_cache: no data, no fetch time.
invalidate_settings_cache == [data |-> None, fetched_at |-> None]

\* ---------------------------------------------------------------- settings
Tier(min_referrals, commission_percentage) ==
    [min_referrals |-> min_referrals, commission_percentage |-> commission_percentage]

\* A tier with the tier_number the handlers store with it.
NumberedTier(tier_number, tier) ==
    [tier_number |-> tier_number, min_referrals |-> tier.min_referrals,
     commission_percentage |-> tier.commission_percentage]

Milestone(referrals_required, bonus_amount) ==
    [referrals_required |-> referrals_required, bonus_amount |-> bonus_amount]

\* get_default_settings(): the tier table, the milestone table (amounts in
\* cents) and the anti-fraud thresholds.
get_default_settings ==
    [referral_tier_config |->
        <<NumberedTier(0, Tier(0, 5)), NumberedTier(1, Tier(10, 10)),
          NumberedTier(2, Tier(25, 15)), NumberedTier(3, Tier(50, 20)),
          NumberedTier(4, Tier(100, 25)), NumberedTier(5, Tier(200, 30))>>,
     bonus_rules |->
        [enabled |-> TRUE,
         milestones |-> <<Milestone(5, 500), Milestone(10, 200), Milestone(15, 200),
                          Milestone(20, 300), Milestone(30, 500), Milestone(50, 1000)>>],
     anti_fraud |->
        [enabled |-> TRUE, flag_same_ip_referrals |-> TRUE, flag_rapid_signups |-> TRUE,
         rapid_signup_threshold_minutes |-> 5, min_account_age_hours |-> 1,
         auto_reject_fraud |-> FALSE]]

\* ------------------------------------------------------- wallet calculator
\* SELECT type, SUM(amount) ... WHERE client_id = $1 AND status = $2 GROUP BY type,
\* read back with totals.get(type, 0).
\* Mutant of GroupTotal: the status filter is missing.
RECURSIVE GroupTotal_any_status(_, _, _, _)
GroupTotal_any_status(rows, client_id, status, type) ==
    IF rows = << >> THEN 0
    ELSE LET r == Head(rows) IN
         (IF r.client_id = client_id /\ r.type = type THEN r.amount ELSE 0)
         + GroupTotal_any_status(Tail(rows), client_id, status, type)

RECURSIVE GroupTotal(_, _, _, _)
GroupTotal(rows, client_id, status, type) ==
    IF rows = << >> THEN 0
    ELSE LET r == Head(rows) IN
         (IF r.client_id = client_id /\ r.status = status /\ r.type = type
          THEN r.amount ELSE 0)
         + GroupTotal(Tail(rows), client_id, status, type)

calculate_wallet_balances(rows, client_id) ==
    LET total_in == GroupTotal(rows, client_id, "confirmed", "IN")
        total_out == GroupTotal(rows, client_id, "confirmed", "OUT")
        real_load == GroupTotal(rows, client_id, "confirmed", "REAL_LOAD")
        referral_earn == GroupTotal(rows, client_id, "confirmed", "REFERRAL_EARN")
        adjust == GroupTotal(rows, client_id, "confirmed", "ADJUST")
        real_balance == total_in - total_out - real_load + referral_earn + adjust
        bonus_earn == GroupTotal(rows, client_id, "confirmed", "BONUS_EARN")
        bonus_load == GroupTotal(rows, client_id, "confirmed", "BONUS_LOAD")
        bonus_adjust == GroupTotal(rows, client_id, "confirmed", "BONUS_ADJUST")
        bonus_balance == bonus_earn - bonus_load + bonus_adjust
    IN [real_balance |-> Max0(real_balance),
        bonus_balance |-> Max0(bonus_balance),
        total_in |-> total_in,
        total_out |-> total_out,
        total_real_loaded |-> real_load,
        total_bonus_loaded |-> bonus_load,
        total_bonus_earned |-> bonus_earn,
        referral_earnings |-> referral_earn,
        pending_in |-> GroupTotal(rows, client_id, "pending", "IN"),
        pending_out |-> GroupTotal(rows, client_id, "pending", "OUT")]

\* --------------------------------------------------------- referral engine
\* Legacy defaults BONUS_RULES, in cents.
first_milestone == 5
first_milestone_bonus == 500
subsequent_block_size == 5
subsequent_bonus == 200

calculate_referral_bonus(valid_referral_count, already_claimed_bonuses) ==
    LET reached == valid_referral_count >= first_milestone
        additional_blocks ==
            IF reached
            THEN (valid_referral_count - first_milestone) \div subsequent_block_size
            ELSE 0
        total_bonus ==
            IF reached
            THEN first_milestone_bonus + additional_blocks * subsequent_bonus
            ELSE 0
        bonus_count == IF reached THEN 1 + additional_blocks ELSE 0
        unclaimed_bonus ==
            IF already_claimed_bonuses = 0 /\ total_bonus > 0
            THEN total_bonus
            ELSE total_bonus - already_claimed_bonuses * subsequent_bonus
    IN [total_bonus_eligible |-> total_bonus,
        bonus_count |-> bonus_count,
        unclaimed_bonus |-> Max0(unclaimed_bonus)]

tier_thresholds == <<5, 10, 20, 50>>

tier_percentages == <<5, 6, 7, 8, 10>>

\* for i, threshold in enumerate(tier_thresholds): if count >= threshold: tier = i + 1
RECURSIVE TierLoop(_, _, _)
TierLoop(i, valid_referral_count, tier) ==
    IF i > Len(tier_thresholds) THEN tier
    ELSE TierLoop(i + 1, valid_referral_count,
                  IF valid_referral_count >= tier_thresholds[i] THEN i ELSE tier)

calculate_referral_tier(valid_referral_count) ==
    LET tier == TierLoop(1, valid_referral_count, 0)
    IN [tier |-> tier,
        percentage |-> IF tier < Len(tier_percentages)
                       THEN tier_percentages[tier + 1]
                       ELSE tier_percentages[Len(tier_percentages)]]

\* The referral codes the clients were created with (generate_referral_code:
\* upper-case letters and digits, unique).
ReferralCodeOf ==
    ("c1" :> "AAA") @@ ("c2" :> "BBB") @@ ("r" :> "RRR") @@ ("d1" :> "D01") @@ ("d2" :> "D02")
    @@ ("d3" :> "D03") @@ ("d4" :> "D04") @@ ("d5" :> "D05") @@ ("d6" :> "D06")

\* The clients row of a client that has just been created; last_ip is
\* written by no handler and stays NULL.
NewClient(client_id) ==
    [referral_code |-> ReferralCodeOf[client_id], referred_by_code |-> None,
     referral_locked |-> FALSE, referral_count |-> 0,
     valid_referral_count |-> 0, bonus_claims |-> 0, last_ip |-> None]

\* The codes a caller may submit, and referral_code.upper().strip() of each.
CodeInputs == {"AAA", " aaa", "BBB", "bbb ", "ZZZ"}

UpperStrip(code) ==
    CASE code = " aaa" -> "AAA"
      [] code = "bbb " -> "BBB"
      [] OTHER -> code

NoReferral == [referrer_client_id |-> "", status |-> "none", total_deposits |-> 0]

\* SELECT * FROM clients WHERE referral_code = $1  (referral_code is UNIQUE)
ClientsByCode(db, code) == {c \in DOMAIN db.clients : db.clients[c].referral_code = code}

BonusEarnRow(client_id, amount) ==
    [client_id |-> client_id, type |-> "BONUS_EARN", amount |-> amount,
     status |-> "confirmed", order_id |-> 0, original_amount |-> None]

ReferralEarnRow(client_id, amount) ==
    [client_id |-> client_id, type |-> "REFERRAL_EARN", amount |-> amount,
     status |-> "confirmed", order_id |-> 0, original_amount |-> None]

\* The milestone-bonus part of process_referral_on_deposit.
CreditMilestoneBonus(db, referrer_id) ==
    LET updated_referrer == db.clients[referrer_id]
        bonus_info == calculate_referral_bonus(updated_referrer.valid_referral_count,
                                               updated_referrer.bonus_claims)
    IN IF bonus_info.unclaimed_bonus > 0
       THEN [db EXCEPT !.ledger = Append(@, BonusEarnRow(referrer_id, bonus_info.unclaimed_bonus)),
                       !.clients[referrer_id].bonus_claims = @ + 1]
       ELSE db

\* The part of process_referral_on_deposit that runs once the referral record
\* of the depositing client has been found.
CreditReferrer(db, client_id, referrer_id, referrer, deposit_amount) ==
    LET referral == db.referrals[client_id]
        activated ==
            IF referral.status = "pending"
            THEN CreditMilestoneBonus(
                     [db EXCEPT !.referrals[client_id].status = "valid",
                                !.clients[referrer_id].valid_referral_count = @ + 1],
                     referrer_id)
            ELSE db
        deposited == [activated EXCEPT !.referrals[client_id].total_deposits = @ + deposit_amount]
        tier_info == calculate_referral_tier(referrer.valid_referral_count)
        earnings == (deposit_amount * tier_info.percentage) \div 100
    IN IF earnings > 0
       THEN [deposited EXCEPT !.ledger = Append(@, ReferralEarnRow(referrer_id, earnings))]
       ELSE deposited

process_referral_on_deposit(db, client_id, deposit_amount) ==
    LET client == db.clients[client_id]
        locked == IF ~client.referral_locked
                  THEN [db EXCEPT !.clients[client_id].referral_locked = TRUE]
                  ELSE db
        owners == IF client.referred_by_code = None
                  THEN {}
                  ELSE ClientsByCode(locked, client.referred_by_code[1])
    IN IF owners = {} \/ locked.referrals[client_id] = NoReferral
       THEN locked
       ELSE LET referrer_id == CHOOSE c \in owners : TRUE
            IN CreditReferrer(locked, client_id, referrer_id,
                              locked.clients[referrer_id], deposit_amount)

\* Mutant of ReferrerOfReferrer: the referrer's own referrer is never found.
ReferrerOfReferrer_none(db, referrer) == {}

\* if referrer.get('referred_by_code'): SELECT * FROM clients WHERE referral_code = $1
ReferrerOfReferrer(db, referrer) ==
    IF referrer.referred_by_code = None
    THEN {}
    ELSE ClientsByCode(db, referrer.referred_by_code[1])

\* apply_referral_code: the returned record is [success, message, db].
apply_referral_code(db, client_id, referral_code) ==
    LET code == UpperStrip(referral_code)
        client == db.clients[client_id]
        owners == ClientsByCode(db, code)
        referrer_id == CHOOSE c \in owners : TRUE
        referrer == db.clients[referrer_id]
        referrer_referrer == ReferrerOfReferrer(db, referrer)
    IN IF client.referral_locked
       THEN [success |-> FALSE, message |-> "after first deposit", db |-> db]
       ELSE IF client.referred_by_code # None
       THEN [success |-> FALSE, message |-> "already applied", db |-> db]
       ELSE IF owners = {}
       THEN [success |-> FALSE, message |-> "invalid code", db |-> db]
       ELSE IF referrer_id = client_id
       THEN [success |-> FALSE, message |-> "own code", db |-> db]
       ELSE IF client_id \in referrer_referrer
       THEN [success |-> FALSE, message |-> "circular", db |-> db]
       ELSE [success |-> TRUE, message |-> "applied",
             db |-> [db EXCEPT
                 !.clients[client_id].referred_by_code = Some(code),
                 \* INSERT INTO client_referrals; a UNIQUE violation is swallowed
                 !.referrals[client_id] =
                     IF @ = NoReferral
                     THEN [referrer_client_id |-> referrer_id, status |-> "pending",
                           total_deposits |-> 0]
                     ELSE @,
                 !.clients[referrer_id].referral_count = @ + 1]]

\* ----------------------------------------------------- order state machine
OrderIds == 1..MaxOrders

\* Amounts a caller may submit when creating an order (amount: float, not
\* validated by the request models) and when editing one.
Amounts == {0, 100}

NewAmounts == {0, 200}

DB == [clients |-> clients, referrals |-> referrals, orders |-> orders, ledger |-> ledger]

Found(db, order_id) == order_id \in DOMAIN db.orders

\* generate_id(): a fresh id.
NextOrderId(db) == Cardinality(DOMAIN db.orders) + 1

\* insert_one(order_doc) followed by insert_one(tx_doc) of the create handlers.
InsertOrderAndTransaction(db, client_id, order_type, tx_type, amount, wallet_type) ==
    LET order_id == NextOrderId(db)
    IN [db EXCEPT
        !.orders = @ @@ (order_id :>
            [client_id |-> client_id, order_type |-> order_type, amount |-> amount,
             wallet_type |-> wallet_type, original_amount |-> None,
             status |-> "pending_confirmation"]),
        !.ledger = Append(@,
            [client_id |-> client_id, type |-> tx_type, amount |-> amount,
             status |-> "pending", order_id |-> order_id, original_amount |-> None])]

\* UPDATE ledger_transactions SET status = $1 WHERE order_id = $2
SetTransactionStatus(rows, order_id, status) ==
    [i \in DOMAIN rows |->
        IF rows[i].order_id = order_id THEN [rows[i] EXCEPT !.status = status] ELSE rows[i]]

\* Mutant of SetTransactionAmount: the edit leaves the ledger rows as they were.
SetTransactionAmount_kept(rows, order_id, amount, original_amount) == rows

\* UPDATE ledger_transactions SET amount = $1, original_amount = $2 WHERE order_id = $3
SetTransactionAmount(rows, order_id, amount, original_amount) ==
    [i \in DOMAIN rows |->
        IF rows[i].order_id = order_id
        THEN [rows[i] EXCEPT !.amount = amount, !.original_amount = Some(original_amount)]
        ELSE rows[i]]

\* The first write of every confirm/reject handler: the orders row.
WriteOrderStatus(db, order_id, status) == [db EXCEPT !.orders[order_id].status = status]

\* The second write of every confirm/reject handler: the ledger row.
WriteTransactionStatus(db, order_id, status) ==
    [db EXCEPT !.ledger = SetTransactionStatus(@, order_id, status)]

\* The two writes of every edit handler;
\* original_amount = order.get('original_amount') or order['amount'].
WriteEdit(db, order_id, new_amount) ==
    LET order == db.orders[order_id]
        original_amount == OrElse(order.original_amount, order.amount)
    IN [db EXCEPT
        !.orders[order_id].amount = new_amount,
        !.orders[order_id].original_amount = Some(original_amount),
        !.ledger = SetTransactionAmount(@, order_id, new_amount, original_amount)]

\* Mutant of WriteReject: the rejection also runs the deposit protocol.
WriteReject_and_referral(db, order_id) ==
    process_referral_on_deposit(
        WriteTransactionStatus(WriteOrderStatus(db, order_id, "rejected"), order_id, "rejected"),
        db.orders[order_id].client_id, db.orders[order_id].amount)

WriteReject(db, order_id) ==
    WriteTransactionStatus(WriteOrderStatus(db, order_id, "rejected"), order_id, "rejected")

WriteConfirm(db, order_id) ==
    WriteTransactionStatus(WriteOrderStatus(db, order_id, "confirmed"), order_id, "confirmed")

\* A response: what the handler does to an order (create, edit, confirm,
\* reject; other: not an order handler), the order it was about (0: none),
\* whether it succeeded, and the arguments of the process_referral_on_deposit calls made.
Response(kind, order_id, ok, referral_calls) ==
    [kind |-> kind, order_id |-> order_id, ok |-> ok, referral_calls |-> referral_calls]

Failure(kind, order_id) == Response(kind, order_id, FALSE, << >>)

Success(kind, order_id) == Response(kind, order_id, TRUE, << >>)

\* The response of a successful edit also carries the new amount.
Edited(order_id, new_amount) ==
    [kind |-> "edit", order_id |-> order_id, ok |-> TRUE, referral_calls |-> << >>,
     new_amount |-> new_amount]

ReferralCall(client_id, deposit_amount) ==
    [client_id |-> client_id, deposit_amount |-> deposit_amount]

Commit(db, response) ==
    /\ clients' = db.clients
    /\ referrals' = db.referrals
    /\ orders' = db.orders
    /\ ledger' = db.ledger
    /\ resp' = response
    /\ UNCHANGED <<cacheState, orderTables, webhookTables, settings, procs>>

Reply(response) == Commit(DB, response)

\* ------------------------------------------------- handlers: order creation
\* Each create handler is written without a bound on the orders table; the
\* action of the same name in lower case is the handler while the table
\* holds fewer than MaxOrders orders.
CanCreate == Cardinality(DOMAIN orders) < MaxOrders

\* telegram_routes.create_cash_in
CreateCashIn(client_id, amount) ==
    Commit(InsertOrderAndTransaction(DB, client_id, "create", "IN", amount, "real"),
           Success("create", NextOrderId(DB)))

create_cash_in(client_id, amount) == CanCreate /\ CreateCashIn(client_id, amount)

\* telegram_routes.create_cash_out
CreateCashOut(client_id, amount) ==
    IF calculate_wallet_balances(ledger, client_id).real_balance < amount
    THEN Reply(Failure("create", 0))
    ELSE Commit(InsertOrderAndTransaction(DB, client_id, "redeem", "OUT", amount, "real"),
                Success("create", NextOrderId(DB)))

create_cash_out(client_id, amount) == CanCreate /\ CreateCashOut(client_id, amount)

\* telegram_routes.create_load
CreateLoad(client_id, amount, wallet_type) ==
    LET wallet == calculate_wallet_balances(ledger, client_id)
        balance == IF wallet_type = "real" THEN wallet.real_balance ELSE wallet.bonus_balance
        tx_type == IF wallet_type = "real" THEN "REAL_LOAD" ELSE "BONUS_LOAD"
    IN IF balance < amount
       THEN Reply(Failure("create", 0))
       ELSE Commit(InsertOrderAndTransaction(DB, client_id, "load", tx_type, amount, wallet_type),
                   Success("create", NextOrderId(DB)))

create_load(client_id, amount, wallet_type) ==
    CanCreate /\ CreateLoad(client_id, amount, wallet_type)

\* portal_routes.load_to_game
LoadToGame(client_id, amount, wallet_type) ==
    LET wallet == calculate_wallet_balances(ledger, client_id)
        balance == IF wallet_type = "real" THEN wallet.real_balance ELSE wallet.bonus_balance
        tx_type == IF wallet_type = "real" THEN "REAL_LOAD" ELSE "BONUS_LOAD"
    IN IF balance < amount \/ amount <= 0
       THEN Reply(Failure("create", 0))
       ELSE Commit(InsertOrderAndTransaction(DB, client_id, "load", tx_type, amount, wallet_type),
                   Success("create", NextOrderId(DB)))

load_to_game(client_id, amount, wallet_type) ==
    CanCreate /\ LoadToGame(client_id, amount, wallet_type)

\* test_routes.simulate_payment
simulate_payment(client_id, amount, payment_type) ==
    /\ CanCreate
    /\ Commit(IF payment_type = "cashin"
              THEN InsertOrderAndTransaction(DB, client_id, "create", "IN", amount, "real")
              ELSE InsertOrderAndTransaction(DB, client_id, "redeem", "OUT", amount, "real"),
              Success("create", NextOrderId(DB)))

\* ------------------------------------------- handlers: admin_routes (orders)
admin_edit_order_amount(order_id, new_amount) ==
    IF ~Found(DB, order_id) \/ orders[order_id].status \notin PendingStates
    THEN Reply(Failure("edit", order_id))
    ELSE Commit(WriteEdit(DB, order_id, new_amount), Edited(order_id, new_amount))

\* The orders table has no column named type, so order.get('type') is None.
OrderGetType(order) == None

admin_confirm_order(order_id) ==
    IF ~Found(DB, order_id) \/ orders[order_id].status \notin PendingStates
    THEN Reply(Failure("confirm", order_id))
    ELSE LET order == orders[order_id]
             written == WriteConfirm(DB, order_id)
         IN IF order.order_type = "load" /\ OrderGetType(order) = Some("IN")
            THEN Commit(process_referral_on_deposit(written, order.client_id, order.amount),
                        Response("confirm", order_id, TRUE,
                                 <<ReferralCall(order.client_id, order.amount)>>))
            ELSE Commit(written, Success("confirm", order_id))

\* Mutant of admin_reject_order: the status of the order is not looked at.
admin_reject_order_any_status(order_id) ==
    IF ~Found(DB, order_id)
    THEN Reply(Failure("reject", order_id))
    ELSE Commit(WriteReject(DB, order_id), Success("reject", order_id))

admin_reject_order(order_id) ==
    IF ~Found(DB, order_id) \/ orders[order_id].status \notin PendingStates
    THEN Reply(Failure("reject", order_id))
    ELSE Commit(WriteReject(DB, order_id), Success("reject", order_id))

\* ------------------------------------------------ handlers: telegram_routes
confirm_cash_in(order_id) ==
    IF ~Found(DB, order_id)
       \/ orders[order_id].status \notin {"pending_confirmation", "pending_screenshot"}
    THEN Reply(Failure("confirm", order_id))
    ELSE LET order == orders[order_id]
         IN Commit(process_referral_on_deposit(WriteConfirm(DB, order_id),
                                               order.client_id, order.amount),
                   Response("confirm", order_id, TRUE,
                            <<ReferralCall(order.client_id, order.amount)>>))

confirm_cash_out(order_id) ==
    IF ~Found(DB, order_id)
       \/ orders[order_id].status \notin {"pending_confirmation", "pending_payout"}
    THEN Reply(Failure("confirm", order_id))
    ELSE Commit(WriteConfirm(DB, order_id), Success("confirm", order_id))

confirm_load(order_id) ==
    IF ~Found(DB, order_id) \/ orders[order_id].status # "pending_confirmation"
    THEN Reply(Failure("confirm", order_id))
    ELSE Commit(WriteConfirm(DB, order_id), Success("confirm", order_id))

telegram_edit_order_amount(order_id, new_amount) ==
    IF ~Found(DB, order_id) \/ orders[order_id].status \notin PendingStates
       \/ new_amount <= 0
    THEN Reply(Failure("edit", order_id))
    ELSE Commit(WriteEdit(DB, order_id, new_amount), Edited(order_id, new_amount))

telegram_reject_order(order_id) ==
    IF ~Found(DB, order_id) \/ orders[order_id].status \notin PendingStates
    THEN Reply(Failure("reject", order_id))
    ELSE Commit(WriteReject(DB, order_id), Success("reject", order_id))

\* ------------------------- handlers: telegram_admin_routes and test_routes
\* process_order_action(order_id, action, admin, new_amount=...)
process_order_action(order_id, action, new_amount) ==
    LET kind == IF action \in {"confirm", "reject", "edit"} THEN action ELSE "other"
    IN IF ~Found(DB, order_id) \/ orders[order_id].status \notin PendingStates
       THEN Reply(Failure(kind, order_id))
       ELSE LET order == orders[order_id] IN
            CASE action = "confirm" ->
                   IF order.order_type = "create"
                   THEN Commit(process_referral_on_deposit(WriteConfirm(DB, order_id),
                                                           order.client_id, order.amount),
                               Response(kind, order_id, TRUE,
                                        <<ReferralCall(order.client_id, order.amount)>>))
                   ELSE Commit(WriteConfirm(DB, order_id), Success(kind, order_id))
              [] action = "reject" ->
                   Commit(WriteReject(DB, order_id), Success(kind, order_id))
              [] action = "edit" ->
                   \* if not new_amount: return failure
                   IF ~Truthy(new_amount)
                   THEN Reply(Failure(kind, order_id))
                   ELSE Commit(WriteEdit(DB, order_id, new_amount[1]),
                               Edited(order_id, new_amount[1]))
              [] OTHER -> Reply(Failure(kind, order_id))

PanelKind(action) ==
    CASE action = "received" -> "confirm"
      [] action = "failed" -> "reject"
      [] action = "adjust" -> "edit"
      [] OTHER -> "other"

\* test_routes.process_payment_action(order_id, action, new_amount)
process_payment_action(order_id, action, new_amount) ==
    LET kind == PanelKind(action)
    IN IF ~Found(DB, order_id) \/ orders[order_id].status \notin PendingStates
       THEN Reply(Failure(kind, order_id))
       ELSE LET order == orders[order_id] IN
            CASE action = "received" ->
                   LET written == WriteConfirm(DB, order_id)
                       \* final_order: the order row read again after the writes
                       amount == written.orders[order_id].amount
                   IN IF order.order_type = "create"
                      THEN Commit(process_referral_on_deposit(written, order.client_id, amount),
                                  Response(kind, order_id, TRUE,
                                           <<ReferralCall(order.client_id, amount)>>))
                      ELSE Commit(written, Success(kind, order_id))
              [] action = "failed" ->
                   Commit(WriteReject(DB, order_id), Success(kind, order_id))
              [] action = "adjust" ->
                   \* if request.new_amount is None: 400
                   IF new_amount = None
                   THEN Reply(Failure(kind, order_id))
                   ELSE Commit(WriteEdit(DB, order_id, new_amount[1]),
                               Edited(order_id, new_amount[1]))
              [] OTHER -> Reply(Failure(kind, order_id))

\* portal_routes.apply_referral_code_endpoint
apply_referral_code_endpoint(client_id, referral_code) ==
    LET result == apply_referral_code(DB, client_id, referral_code)
    IN Commit(result.db,
              [kind |-> "apply", order_id |-> 0, ok |-> result.success,
               referral_calls |-> << >>, message |-> result.message,
               client_id |-> client_id, referral_code |-> referral_code])

\* ------------------------------------------------------------ specification
NoResponse == Response("other", 0, TRUE, << >>)

\* client_routes: a new client has its own referral code, no referrer and
\* zero counters; every other table is empty.
Init ==
    /\ clients = [c \in ClientIds |-> NewClient(c)]
    /\ referrals = [c \in ClientIds |-> NoReferral]
    /\ orders = << >>
    /\ ledger = << >>
    /\ api_orders = << >>
    /\ api_audit_logs = << >>
    /\ api_webhooks = << >>
    /\ api_webhook_deliveries = << >>
    /\ delivery_tasks = << >>
    /\ settings = get_default_settings
    /\ procs = << >>
    /\ settings_cache = invalidate_settings_cache
    /\ clock = 0
    /\ resp = NoResponse

WalletTypes == {"real", "bonus"}

BotActions == {"confirm", "reject", "edit", "cancel"}

PanelActions == {"received", "failed", "adjust", "cancel"}

OptionalNewAmounts == {None} \cup {Some(a) : a \in NewAmounts}

\* new_amount travels with the editing action only.
ActionAmounts(action, editing) == IF action = editing THEN OptionalNewAmounts ELSE {None}

Next ==
    \/ \E c \in ClientIds, a \in Amounts : create_cash_in(c, a)
    \/ \E c \in ClientIds, a \in Amounts : create_cash_out(c, a)
    \/ \E c \in ClientIds, a \in Amounts, w \in WalletTypes : create_load(c, a, w)
    \/ \E c \in ClientIds, a \in Amounts, w \in WalletTypes : load_to_game(c, a, w)
    \/ \E c \in ClientIds, a \in Amounts, t \in {"cashin", "cashout"} : simulate_payment(c, a, t)
    \/ \E o \in OrderIds, a \in NewAmounts : admin_edit_order_amount(o, a)
    \/ \E o \in OrderIds : admin_confirm_order(o)
    \/ \E o \in OrderIds : admin_reject_order(o)
    \/ \E o \in OrderIds : confirm_cash_in(o)
    \/ \E o \in OrderIds : confirm_cash_out(o)
    \/ \E o \in OrderIds : confirm_load(o)
    \/ \E o \in OrderIds, a \in NewAmounts : telegram_edit_order_amount(o, a)
    \/ \E o \in OrderIds : telegram_reject_order(o)
    \/ \E o \in OrderIds, x \in BotActions : \E a \in ActionAmounts(x, "edit") :
           process_order_action(o, x, a)
    \/ \E o \in OrderIds, x \in PanelActions : \E a \in ActionAmounts(x, "adjust") :
           process_payment_action(o, x, a)

\* The order state machine through every entry point.
Spec == Init /\ [][Next]_vars

\* The referral engine: code application, deposits and their confirmation.
NextReferral ==
    \/ \E c \in ClientIds, code \in CodeInputs : apply_referral_code_endpoint(c, code)
    \/ \E c \in ClientIds, a \in Amounts : create_cash_in(c, a)
    \/ \E o \in OrderIds : admin_confirm_order(o)
    \/ \E o \in OrderIds : confirm_cash_in(o)
    \/ \E o \in OrderIds : process_order_action(o, "confirm", None)
    \/ \E o \in OrderIds : process_payment_action(o, "received", None)

SpecReferral == Init /\ [][NextReferral]_vars

\* A confirm request that stops between its two writes (the second UPDATE
\* raises, or the process is killed while awaiting it): each execute() is
\* committed on its own, so the first write stays.
admin_confirm_order_interrupted(order_id) ==
    /\ Found(DB, order_id)
    /\ orders[order_id].status \in PendingStates
    /\ Commit(WriteOrderStatus(DB, order_id, "confirmed"), Failure("confirm", order_id))

confirm_cash_in_interrupted(order_id) ==
    /\ Found(DB, order_id)
    /\ orders[order_id].status \in {"pending_confirmation", "pending_screenshot"}
    /\ Commit(WriteOrderStatus(DB, order_id, "confirmed"), Failure("confirm", order_id))

NextCrash ==
    \/ Next
    \/ \E o \in OrderIds : admin_confirm_order_interrupted(o)
    \/ \E o \in OrderIds : confirm_cash_in_interrupted(o)

SpecCrash == Init /\ [][NextCrash]_vars

\* ------------------------------------------- wallet calculator on any ledger
WalletAmounts == {100, 200}

\* Every row shape the calculator tells apart; the second amount is drawn
\* only for the rows that count towards a balance of c1.
WalletRows ==
    {r \in [client_id : ClientIds, type : TransactionType, amount : WalletAmounts,
            status : TransactionStatus, order_id : {0}, original_amount : {None}] :
        r.amount = 100 \/ (r.client_id = "c1" /\ r.status = "confirmed")}

Ledgers(n) == UNION {[1..k -> WalletRows] : k \in 0..n}

InitWallet ==
    /\ clients = [c \in ClientIds |-> NewClient(c)]
    /\ referrals = [c \in ClientIds |-> NoReferral]
    /\ orders = << >>
    /\ ledger \in Ledgers(MaxRows)
    /\ api_orders = << >>
    /\ api_audit_logs = << >>
    /\ api_webhooks = << >>
    /\ api_webhook_deliveries = << >>
    /\ delivery_tasks = << >>
    /\ settings = get_default_settings
    /\ procs = << >>
    /\ settings_cache = invalidate_settings_cache
    /\ clock = 0
    /\ resp = NoResponse

\* telegram_routes.get_client_balance
BalanceResponse(rows, client_id) ==
    [kind |-> "balance", client_id |-> client_id,
     wallet |-> calculate_wallet_balances(rows, client_id)]

get_client_balance(client_id) ==
    /\ resp' = BalanceResponse(ledger, client_id)
    /\ UNCHANGED <<cacheState, backendTables, orderTables, webhookTables, settings, procs>>

AdjustAmounts == {-100, 100}

\* admin_routes.adjust_client_wallet: the amount is not validated; the
\* response carries the balances computed after the insert.
adjust_client_wallet(client_id, amount, wallet_type) ==
    LET row == [client_id |-> client_id,
                type |-> IF wallet_type = "real" THEN "ADJUST" ELSE "BONUS_ADJUST",
                amount |-> amount, status |-> "confirmed", order_id |-> 0,
                original_amount |-> None]
    IN /\ Len(ledger) < MaxRows
       /\ ledger' = Append(ledger, row)
       /\ resp' = BalanceResponse(ledger', client_id)
       /\ UNCHANGED <<cacheState, clients, referrals, orders, orderTables, webhookTables, settings, procs>>

NextWallet ==
    \/ \E c \in ClientIds : get_client_balance(c)
    \/ \E c \in ClientIds, a \in AdjustAmounts, w \in WalletTypes : adjust_client_wallet(c, a, w)

SpecWallet == InitWallet /\ [][NextWallet]_vars

\* ------------------------------------------------ amounts of either sign
\* amount and new_amount are declared float in every request model
\* (CashInRequest, CashOutRequest, LoadRequest, EditAmountRequest,
\* AdminOrderEdit, AdminWalletAdjustment), with no validator.
SignedAmounts == {-100, 100}

\* The handlers that write an amount received from the caller.
NextSigned ==
    \/ \E c \in ClientIds, a \in SignedAmounts : create_cash_in(c, a)
    \/ \E c \in ClientIds, a \in SignedAmounts : create_cash_out(c, a)
    \/ \E c \in ClientIds, a \in SignedAmounts, w \in WalletTypes : create_load(c, a, w)
    \/ \E c \in ClientIds, a \in SignedAmounts, w \in WalletTypes : load_to_game(c, a, w)
    \/ \E o \in OrderIds, a \in SignedAmounts : admin_edit_order_amount(o, a)
    \/ \E o \in OrderIds, a \in SignedAmounts : telegram_edit_order_amount(o, a)
    \/ \E c \in ClientIds, a \in SignedAmounts, w \in WalletTypes : adjust_client_wallet(c, a, w)

SpecSigned == Init /\ [][NextSigned]_vars

\* ------------------------------------------------- v1 API: order creation
MaxApiOrders == 2

ApiUsers == {"u1", "u2"}

\* api_games: one active game with the column defaults for its limits.
ApiGames == {"slots"}

GameNameInputs == {"slots", "poker"}

min_recharge_amount == 10

max_recharge_amount == 10000

RechargeAmounts == {5, 10, 20}

\* The Idempotency-Key header: absent, present and empty, present.
IdempotencyKeys == {None, Some(""), Some("k1"), Some("k2")}

\* Python truthiness of an optional string: None and "" are both falsy.
TruthyStr(x) == x # None /\ x[1] # ""

\* SELECT * FROM api_orders WHERE idempotency_key = $1
OrdersByKey(rows, idempotency_key) ==
    {i \in DOMAIN rows : rows[i].idempotency_key = idempotency_key}

\* validate_order for a request without a referral code: the game exists and
\* the amount is within its limits (the bonus columns are not modelled).
validate_order(game_name, recharge_amount) ==
    /\ game_name \in ApiGames
    /\ recharge_amount >= min_recharge_amount
    /\ recharge_amount <= max_recharge_amount

ApiResponse(ok, order_id, idempotency_key, error) ==
    [kind |-> "create_order", ok |-> ok, order_id |-> order_id,
     idempotency_key |-> idempotency_key, error |-> error]

\* order_service.create_order, called without a referral code.  The INSERT
\* raises when the key column, which is UNIQUE, already holds a non-NULL
\* value equal to the key; the exception leaves the handler.
create_order(user_id, game_name, recharge_amount, idempotency_key) ==
    LET existing == OrdersByKey(api_orders, idempotency_key)
        order_id == Len(api_orders) + 1
        row == [order_id |-> order_id, user_id |-> user_id, game_name |-> game_name,
                recharge_amount |-> recharge_amount, status |-> "pending",
                idempotency_key |-> idempotency_key]
    IN /\ UNCHANGED <<cacheState, backendTables, webhookTables, settings, procs>>
       /\ IF TruthyStr(idempotency_key) /\ existing # {}
          THEN /\ resp' = ApiResponse(TRUE, api_orders[CHOOSE i \in existing : TRUE].order_id,
                                      idempotency_key, "")
               /\ UNCHANGED <<api_orders, api_audit_logs>>
          ELSE IF ~validate_order(game_name, recharge_amount)
          THEN /\ resp' = ApiResponse(FALSE, 0, idempotency_key, "validation")
               /\ UNCHANGED <<api_orders, api_audit_logs>>
          ELSE IF idempotency_key # None /\ existing # {}
          THEN /\ resp' = ApiResponse(FALSE, 0, idempotency_key, "UniqueViolationError")
               /\ UNCHANGED <<api_orders, api_audit_logs>>
          ELSE /\ Len(api_orders) < MaxApiOrders
               /\ api_orders' = Append(api_orders, row)
               /\ api_audit_logs' = Append(api_audit_logs,
                      [user_id |-> user_id, action |-> "order.created", resource_id |-> order_id])
               /\ resp' = ApiResponse(TRUE, order_id, idempotency_key, "")

NextApi ==
    \E u \in ApiUsers, g \in GameNameInputs, a \in RechargeAmounts, k \in IdempotencyKeys :
        create_order(u, g, a, k)

SpecApi == Init /\ [][NextApi]_vars

\* ------------------------------------------- referral engine and settings
MaxEngineRows == 7

MaxTiers == 3

\* The largest tier table add_referral_tier is let to build.
MaxStoredTiers == 7

\* sorted(rows, key=lambda x: x.get(field, 0)): a stable sort.
RECURSIVE InsertSorted(_, _, _)
InsertSorted(sorted, x, field) ==
    IF sorted = << >> THEN <<x>>
    ELSE IF Head(sorted)[field] <= x[field]
    THEN <<Head(sorted)>> \o InsertSorted(Tail(sorted), x, field)
    ELSE <<x>> \o sorted

\* Mutant of SortedBy: the rows are taken in the order in which they are stored.
SortedBy_unsorted(rows, field) == rows

RECURSIVE SortedBy(_, _)
SortedBy(rows, field) ==
    IF rows = << >> THEN << >>
    ELSE InsertSorted(SortedBy(SubSeq(rows, 1, Len(rows) - 1), field), rows[Len(rows)], field)

\* for i, tier in enumerate(tiers): if count >= tier.min_referrals: current_tier = tier
RECURSIVE CurrentTier(_, _, _)
CurrentTier(tiers, valid_referral_count, current_tier) ==
    IF tiers = << >> THEN current_tier
    ELSE CurrentTier(Tail(tiers), valid_referral_count,
                     IF valid_referral_count >= Head(tiers).min_referrals
                     THEN Head(tiers) ELSE current_tier)

\* The tier used when the table is empty.
StarterTier == Tier(0, 5)

calculate_referral_tier_async(tier_config, valid_referral_count) ==
    LET tiers == SortedBy(tier_config, "min_referrals")
        current_tier == CurrentTier(tiers, valid_referral_count,
                                    IF tiers # << >> THEN tiers[1] ELSE StarterTier)
    IN [percentage |-> current_tier.commission_percentage,
        min_referrals |-> current_tier.min_referrals]

\* check_referral_fraud: the flags raised for a referred client whose account
\* is age_minutes old when the check runs.
check_referral_fraud(anti_fraud, referrer, referred, ip_address, age_minutes) ==
    LET referred_ip == IF referred.last_ip # None THEN referred.last_ip ELSE ip_address
        same_ip == /\ ip_address # None
                   /\ anti_fraud.flag_same_ip_referrals
                   /\ referrer.last_ip # None
                   /\ referrer.last_ip = referred_ip
        rapid == /\ anti_fraud.flag_rapid_signups
                 /\ age_minutes < anti_fraud.rapid_signup_threshold_minutes
        too_new == age_minutes < anti_fraud.min_account_age_hours * 60
        flags == (IF same_ip THEN {"SAME_IP_AS_REFERRER"} ELSE {})
                 \cup (IF rapid THEN {"RAPID_SIGNUP"} ELSE {})
                 \cup (IF too_new THEN {"ACCOUNT_TOO_NEW"} ELSE {})
    IN IF ~anti_fraud.enabled
       THEN [is_suspicious |-> FALSE, flags |-> {}, should_reject |-> FALSE]
       ELSE [is_suspicious |-> flags # {}, flags |-> flags,
             should_reject |-> flags # {} /\ anti_fraud.auto_reject_fraud]

EngineClientIds == {"r", "d1", "d2", "d3", "d4", "d5", "d6"}

\* The referred clients, in the order in which they applied the code.
Referred == <<"d1", "d2", "d3", "d4", "d5", "d6">>

RECURSIVE ApplyAll(_, _, _)
ApplyAll(db, applicants, referral_code) ==
    IF applicants = << >> THEN db
    ELSE ApplyAll(apply_referral_code(db, Head(applicants), referral_code).db,
                  Tail(applicants), referral_code)

\* The clients table with one freshly created row for each of the ids.
RECURSIVE NewClients(_)
NewClients(ids) ==
    IF ids = {} THEN << >>
    ELSE LET c == CHOOSE x \in ids : TRUE
         IN (c :> NewClient(c)) @@ NewClients(ids \ {c})

\* No client_referrals row for any of the ids.
RECURSIVE NoReferrals(_)
NoReferrals(ids) ==
    IF ids = {} THEN << >>
    ELSE LET c == CHOOSE x \in ids : TRUE
         IN (c :> NoReferral) @@ NoReferrals(ids \ {c})

\* One referrer and six clients that have applied its code.
EngineStart ==
    ApplyAll([clients |-> NewClients(EngineClientIds),
              referrals |-> NoReferrals(EngineClientIds),
              orders |-> << >>, ledger |-> << >>],
             Referred, ReferralCodeOf["r"])

InitEngine ==
    /\ clients = EngineStart.clients
    /\ referrals = EngineStart.referrals
    /\ orders = << >>
    /\ ledger = << >>
    /\ api_orders = << >>
    /\ api_audit_logs = << >>
    /\ api_webhooks = << >>
    /\ api_webhook_deliveries = << >>
    /\ delivery_tasks = << >>
    /\ settings = get_default_settings
    /\ procs = << >>
    /\ settings_cache = invalidate_settings_cache
    /\ clock = 0
    /\ resp = NoResponse

\* now - created_at, in minutes, when the deposits of a client are confirmed:
\* d1 and d2 signed up two minutes before, the others two hours before.
AccountAgeMinutes(client_id) == IF client_id \in {"d1", "d2"} THEN 2 ELSE 120

\* The call of process_referral_on_deposit made by a deposit confirmation.
referral_on_deposit(client_id, deposit_amount) ==
    /\ Len(ledger) < MaxEngineRows
    /\ Commit(process_referral_on_deposit(DB, client_id, deposit_amount),
              Response("deposit", 0, TRUE, <<ReferralCall(client_id, deposit_amount)>>))

SettingsUpdated(ok) == Response("settings", 0, ok, << >>)

StoreSettings(new_settings, response) ==
    /\ settings' = new_settings
    /\ resp' = response
    /\ settings_cache' = IF response.ok THEN invalidate_settings_cache ELSE settings_cache
    /\ UNCHANGED <<backendTables, orderTables, webhookTables, procs, clock>>

\* settings_routes.update_bonus_milestones
update_bonus_milestones(milestones) ==
    IF \E i \in DOMAIN milestones :
          milestones[i].referrals_required < 1 \/ milestones[i].bonus_amount <= 0
    THEN StoreSettings(settings, SettingsUpdated(FALSE))
    ELSE StoreSettings(
             [settings EXCEPT !.bonus_rules.milestones = SortedBy(milestones, "referrals_required")],
             SettingsUpdated(TRUE))

\* for i, tier in enumerate(tiers): tier['tier_number'] = i
Enumerate(tiers) == [i \in DOMAIN tiers |-> NumberedTier(i - 1, tiers[i])]

\* tiers = sorted(tiers, key=min_referrals), numbered from 0.
SortedAndNumbered(tiers) == Enumerate(SortedBy(tiers, "min_referrals"))

\* settings_routes.update_referral_tiers
update_referral_tiers(tiers) ==
    IF \/ tiers = << >>
       \/ ~\E i \in DOMAIN tiers : tiers[i].min_referrals = 0
       \/ \E i \in DOMAIN tiers :
             tiers[i].commission_percentage < 0 \/ tiers[i].min_referrals < 0
    THEN StoreSettings(settings, SettingsUpdated(FALSE))
    ELSE StoreSettings([settings EXCEPT !.referral_tier_config = SortedAndNumbered(tiers)],
                       SettingsUpdated(TRUE))

\* settings_routes.add_referral_tier; the tier submitted carries both keys.
add_referral_tier(tier) ==
    LET tiers == settings.referral_tier_config
    IN IF \E i \in DOMAIN tiers : tiers[i].min_referrals = tier.min_referrals
       THEN StoreSettings(settings, SettingsUpdated(FALSE))
       ELSE /\ Len(tiers) < MaxStoredTiers
            /\ StoreSettings(
                   [settings EXCEPT !.referral_tier_config = SortedAndNumbered(Append(tiers, tier))],
                   SettingsUpdated(TRUE))

\* settings_routes.delete_referral_tier
delete_referral_tier(tier_number) ==
    LET tiers == settings.referral_tier_config
        Kept(t) == t.tier_number # tier_number
        new_tiers == SelectSeq(tiers, Kept)
    IN IF tier_number = 0 \/ Len(new_tiers) = Len(tiers)
       THEN StoreSettings(settings, SettingsUpdated(FALSE))
       ELSE StoreSettings([settings EXCEPT !.referral_tier_config = SortedAndNumbered(new_tiers)],
                          SettingsUpdated(TRUE))

\* settings_routes.update_anti_fraud_settings, with updates = {auto_reject_fraud: value}
update_anti_fraud_settings(auto_reject_fraud) ==
    StoreSettings([settings EXCEPT !.anti_fraud.auto_reject_fraud = auto_reject_fraud],
                  SettingsUpdated(TRUE))

MilestoneInputs == {<<Milestone(5, 700)>>, <<Milestone(10, 200), Milestone(0, 100)>>}

TierInputs == {<<Tier(5, 6), Tier(0, 10)>>, <<Tier(5, 6)>>}

NextEngine ==
    \/ \E c \in EngineClientIds : referral_on_deposit(c, 100)
    \/ \E m \in MilestoneInputs : update_bonus_milestones(m)
    \/ \E t \in TierInputs : update_referral_tiers(t)
    \/ \E b \in BOOLEAN : update_anti_fraud_settings(b)

SpecEngine == InitEngine /\ [][NextEngine]_vars

\* --------------------------------------------------- tier administration
\* The tables an admin may submit to replace the tier table: with and
\* without a base tier, with a repeated threshold, empty, with a negative
\* percentage.
TierTableInputs ==
    {<<Tier(5, 6), Tier(0, 10)>>, <<Tier(5, 6)>>, <<Tier(0, 5), Tier(5, 6), Tier(5, 7)>>,
     << >>, <<Tier(0, -1)>>}

\* The tiers an admin may submit to add_referral_tier.
TierInputsToAdd == {Tier(5, 6), Tier(10, 7), Tier(-1, 6)}

NextTierAdmin ==
    \/ \E t \in TierTableInputs : update_referral_tiers(t)
    \/ \E t \in TierInputsToAdd : add_referral_tier(t)
    \/ \E n \in 0..MaxStoredTiers : delete_referral_tier(n)

SpecTierAdmin == Init /\ [][NextTierAdmin]_vars

\* ---------------------------------------------------- tier lookup on any table
TierChoices == {Tier(m, p) : m \in {0, 5, 10}, p \in {5, 6, 7}}

\* The tier tables of up to n tiers, in any stored order.
TierTables(n) == UNION {[1..k -> TierChoices] : k \in 0..n}

ReferralCounts == {0, 4, 5, 9, 10, 11}

InitTier ==
    /\ clients = [c \in ClientIds |-> NewClient(c)]
    /\ referrals = [c \in ClientIds |-> NoReferral]
    /\ orders = << >>
    /\ ledger = << >>
    /\ api_orders = << >>
    /\ api_audit_logs = << >>
    /\ api_webhooks = << >>
    /\ api_webhook_deliveries = << >>
    /\ delivery_tasks = << >>
    /\ settings \in {[get_default_settings EXCEPT !.referral_tier_config = t] : t \in TierTables(MaxTiers)}
    /\ procs = << >>
    /\ settings_cache = invalidate_settings_cache
    /\ clock = 0
    /\ resp = NoResponse

\* A call of calculate_referral_tier_async on the stored tier table.
tier_lookup(valid_referral_count) ==
    /\ resp' = [kind |-> "tier", valid_referral_count |-> valid_referral_count,
                percentage |-> calculate_referral_tier_async(settings.referral_tier_config,
                                                             valid_referral_count).percentage]
    /\ UNCHANGED <<cacheState, backendTables, orderTables, webhookTables, settings, procs>>

NextTier == \E n \in ReferralCounts : tier_lookup(n)

SpecTier == InitTier /\ [][NextTier]_vars

\* ------------------------------- concurrent deposit confirmations (steps)
MaxProcs == 2

RECURSIVE DepositAll(_, _, _)
DepositAll(db, depositors, deposit_amount) ==
    IF depositors = << >> THEN db
    ELSE DepositAll(process_referral_on_deposit(db, Head(depositors), deposit_amount),
                    Tail(depositors), deposit_amount)

\* Four of the six referred clients have had their first deposit confirmed.
RaceStart == DepositAll(EngineStart, <<"d1", "d2", "d3", "d4">>, 100)

InitRace ==
    /\ clients = RaceStart.clients
    /\ referrals = RaceStart.referrals
    /\ orders = << >>
    /\ ledger = RaceStart.ledger
    /\ api_orders = << >>
    /\ api_audit_logs = << >>
    /\ api_webhooks = << >>
    /\ api_webhook_deliveries = << >>
    /\ delivery_tasks = << >>
    /\ settings = get_default_settings
    /\ procs = << >>
    /\ settings_cache = invalidate_settings_cache
    /\ clock = 0
    /\ resp = NoResponse

\* A call of process_referral_on_deposit is entered: nothing is read yet.
start_referral_on_deposit(client_id, deposit_amount) ==
    /\ client_id \notin DOMAIN procs
    /\ Cardinality(DOMAIN procs) < MaxProcs
    /\ procs' = procs @@ (client_id :>
           [pc |-> "fetch_client", deposit_amount |-> deposit_amount, client |-> None,
            referrer_id |-> "", referrer |-> None, unclaimed_bonus |-> 0])
    /\ UNCHANGED <<cacheState, backendTables, orderTables, webhookTables, settings, resp>>

\* What the next statement of the call does to the tables and to the call:
\* every fetch_one and every execute is a step of its own.
StepOf(db, client_id, p) ==
    LET at(pc) == [p EXCEPT !.pc = pc]
        same(q) == [db |-> db, proc |-> q]
    IN CASE p.pc = "fetch_client" ->
              same([at("lock") EXCEPT !.client = Some(db.clients[client_id])])
         [] p.pc = "lock" ->
              [db |-> IF ~p.client[1].referral_locked
                      THEN [db EXCEPT !.clients[client_id].referral_locked = TRUE]
                      ELSE db,
               proc |-> IF p.client[1].referred_by_code # None
                        THEN at("fetch_referrer") ELSE at("done")]
         [] p.pc = "fetch_referrer" ->
              LET owners == ClientsByCode(db, p.client[1].referred_by_code[1])
                  referrer_id == CHOOSE c \in owners : TRUE
              IN IF owners = {} THEN same(at("done"))
                 ELSE same([at("fetch_referral") EXCEPT
                               !.referrer_id = referrer_id,
                               !.referrer = Some(db.clients[referrer_id])])
         [] p.pc = "fetch_referral" ->
              IF db.referrals[client_id] = NoReferral THEN same(at("done"))
              ELSE IF db.referrals[client_id].status = "pending" THEN same(at("set_valid"))
              ELSE same(at("add_deposits"))
         [] p.pc = "set_valid" ->
              [db |-> [db EXCEPT !.referrals[client_id].status = "valid"],
               proc |-> at("inc_count")]
         [] p.pc = "inc_count" ->
              [db |-> [db EXCEPT !.clients[p.referrer_id].valid_referral_count = @ + 1],
               proc |-> at("fetch_updated")]
         [] p.pc = "fetch_updated" ->
              LET updated_referrer == db.clients[p.referrer_id]
                  bonus_info == calculate_referral_bonus(updated_referrer.valid_referral_count,
                                                         updated_referrer.bonus_claims)
              IN IF bonus_info.unclaimed_bonus > 0
                 THEN same([at("insert_bonus") EXCEPT
                               !.unclaimed_bonus = bonus_info.unclaimed_bonus])
                 ELSE same(at("add_deposits"))
         [] p.pc = "insert_bonus" ->
              [db |-> [db EXCEPT !.ledger = Append(@, BonusEarnRow(p.referrer_id, p.unclaimed_bonus))],
               proc |-> at("inc_claims")]
         [] p.pc = "inc_claims" ->
              [db |-> [db EXCEPT !.clients[p.referrer_id].bonus_claims = @ + 1],
               proc |-> at("add_deposits")]
         [] p.pc = "add_deposits" ->
              [db |-> [db EXCEPT !.referrals[client_id].total_deposits = @ + p.deposit_amount],
               proc |-> at("insert_earn")]
         [] p.pc = "insert_earn" ->
              LET tier_info == calculate_referral_tier(p.referrer[1].valid_referral_count)
                  earnings == (p.deposit_amount * tier_info.percentage) \div 100
              IN [db |-> IF earnings > 0
                         THEN [db EXCEPT !.ledger = Append(@, ReferralEarnRow(p.referrer_id, earnings))]
                         ELSE db,
                  proc |-> at("done")]

\* One statement of a call in progress.
referral_on_deposit_step(client_id) ==
    /\ client_id \in DOMAIN procs
    /\ procs[client_id].pc # "done"
    /\ LET step == StepOf(DB, client_id, procs[client_id])
       IN /\ clients' = step.db.clients
          /\ referrals' = step.db.referrals
          /\ orders' = step.db.orders
          /\ ledger' = step.db.ledger
          /\ procs' = [procs EXCEPT ![client_id] = step.proc]
    /\ UNCHANGED <<cacheState, orderTables, webhookTables, settings, resp>>

NextRace ==
    \/ \E c \in EngineClientIds : start_referral_on_deposit(c, 100)
    \/ \E c \in EngineClientIds : referral_on_deposit_step(c)

SpecRace == InitRace /\ [][NextRace]_vars

\* ------------------------------- concurrent requests on one pending order
\* The handlers that read an order and then write it, each statement a step.
RequestHandlers ==
    {"admin_confirm_order", "admin_reject_order", "admin_edit_order_amount",
     "confirm_cash_in", "telegram_reject_order", "telegram_edit_order_amount"}

HandlerKind(handler) ==
    CASE handler \in {"admin_confirm_order", "confirm_cash_in"} -> "confirm"
      [] handler \in {"admin_reject_order", "telegram_reject_order"} -> "reject"
      [] OTHER -> "edit"

\* if order['status'] not in [...]: 400
AllowedStates(handler) ==
    IF handler = "confirm_cash_in"
    THEN {"pending_confirmation", "pending_screenshot"}
    ELSE PendingStates

\* c1 has applied the code of c2 and has created a deposit of 100, which is
\* pending: the state in which the requests arrive.
InitRequests ==
    /\ LET applied == apply_referral_code(
                          [clients |-> [c \in ClientIds |-> NewClient(c)],
                           referrals |-> [c \in ClientIds |-> NoReferral],
                           orders |-> << >>, ledger |-> << >>],
                          "c1", "BBB").db
           start == InsertOrderAndTransaction(applied, "c1", "create", "IN", 100, "real")
       IN /\ clients = start.clients
          /\ referrals = start.referrals
          /\ orders = start.orders
          /\ ledger = start.ledger
    /\ api_orders = << >>
    /\ api_audit_logs = << >>
    /\ api_webhooks = << >>
    /\ api_webhook_deliveries = << >>
    /\ delivery_tasks = << >>
    /\ settings = get_default_settings
    /\ procs = << >>
    /\ settings_cache = invalidate_settings_cache
    /\ clock = 0
    /\ resp = NoResponse

\* A request has been received: nothing is read yet.
NewRequest(handler, order_id, new_amount) ==
    [handler |-> handler, order_id |-> order_id, new_amount |-> new_amount,
     pc |-> "fetch_order", order |-> None, ok |-> FALSE,
     deposit_amount |-> 0, client |-> None, referrer_id |-> "", referrer |-> None,
     unclaimed_bonus |-> 0]

receive_request(handler, order_id, new_amount) ==
    /\ Cardinality(DOMAIN procs) < MaxProcs
    /\ procs' = procs @@ ((Cardinality(DOMAIN procs) + 1) :> NewRequest(handler, order_id, new_amount))
    /\ UNCHANGED <<cacheState, backendTables, orderTables, webhookTables, settings, resp>>

\* order = fetch_one(...) and the tests that follow it.
FetchOrder(db, r) ==
    LET at(pc) == [r EXCEPT !.pc = pc]
        order == db.orders[r.order_id]
    IN IF \/ ~Found(db, r.order_id)
          \/ order.status \notin AllowedStates(r.handler)
          \/ (r.handler = "telegram_edit_order_amount" /\ r.new_amount <= 0)
       THEN [db |-> db, proc |-> at("done")]
       ELSE [db |-> db, proc |-> [at("update_order") EXCEPT !.order = Some(order)]]

\* What the next statement of a request does to the tables and to the
\* request: every read and every UPDATE is a step of its own, and the
\* statements of process_referral_on_deposit follow those of confirm_cash_in.
RequestStep(db, r) ==
    LET at(pc) == [r EXCEPT !.pc = pc]
        kind == HandlerKind(r.handler)
        order == r.order[1]
        original_amount == OrElse(order.original_amount, order.amount)
    IN CASE r.pc = "fetch_order" -> FetchOrder(db, r)
         [] r.pc = "update_order" ->
              [db |-> CASE kind = "confirm" -> WriteOrderStatus(db, r.order_id, "confirmed")
                        [] kind = "reject" -> WriteOrderStatus(db, r.order_id, "rejected")
                        [] OTHER ->
                             [db EXCEPT !.orders[r.order_id].amount = r.new_amount,
                                        !.orders[r.order_id].original_amount = Some(original_amount)],
               proc |-> at("update_transaction")]
         [] r.pc = "update_transaction" ->
              [db |-> CASE kind = "confirm" -> WriteTransactionStatus(db, r.order_id, "confirmed")
                        [] kind = "reject" -> WriteTransactionStatus(db, r.order_id, "rejected")
                        [] OTHER ->
                             [db EXCEPT !.ledger = SetTransactionAmount(@, r.order_id, r.new_amount,
                                                                        original_amount)],
               proc |-> [at("after_updates") EXCEPT !.ok = TRUE]]
         [] r.pc = "after_updates" ->
              \* the call of process_referral_on_deposit, where the handler makes it
              IF \/ r.handler = "confirm_cash_in"
                 \/ (/\ r.handler = "admin_confirm_order"
                     /\ order.order_type = "load"
                     /\ OrderGetType(order) = Some("IN"))
              THEN [db |-> db, proc |-> [at("fetch_client") EXCEPT !.deposit_amount = order.amount]]
              ELSE [db |-> db, proc |-> at("done")]
         [] OTHER -> StepOf(db, order.client_id, r)

\* One statement of a request in progress.
request_step(r) ==
    /\ r \in DOMAIN procs
    /\ procs[r].pc # "done"
    /\ LET step == RequestStep(DB, procs[r])
       IN /\ clients' = step.db.clients
          /\ referrals' = step.db.referrals
          /\ orders' = step.db.orders
          /\ ledger' = step.db.ledger
          /\ procs' = [procs EXCEPT ![r] = step.proc]
    /\ UNCHANGED <<cacheState, orderTables, webhookTables, settings, resp>>

NextRequests ==
    \/ \E h \in RequestHandlers, o \in OrderIds : receive_request(h, o, 300)
    \/ \E r \in 1..MaxProcs : request_step(r)

SpecRequests == InitRequests /\ [][NextRequests]_vars

\* ---------------------------------- concurrent calls of apply_referral_code
\* The clients of the run and the codes they submit (each the code of one of them).
ApplicantIds == {"c1", "c2", "r"}

ApplyCodes == {"AAA", "BBB", "RRR"}

InitApply ==
    /\ clients = NewClients(ApplicantIds)
    /\ referrals = NoReferrals(ApplicantIds)
    /\ orders = << >>
    /\ ledger = << >>
    /\ api_orders = << >>
    /\ api_audit_logs = << >>
    /\ api_webhooks = << >>
    /\ api_webhook_deliveries = << >>
    /\ delivery_tasks = << >>
    /\ settings = get_default_settings
    /\ procs = << >>
    /\ settings_cache = invalidate_settings_cache
    /\ clock = 0
    /\ resp = NoResponse

\* A call of apply_referral_code is entered: referral_code.upper().strip()
\* is computed, nothing is read yet.
start_apply_referral_code(client_id, referral_code) ==
    /\ Cardinality(DOMAIN procs) < MaxProcs
    /\ procs' = procs @@ ((Cardinality(DOMAIN procs) + 1) :>
           [client_id |-> client_id, referral_code |-> UpperStrip(referral_code),
            pc |-> "fetch_client", referrer_id |-> "", referrer |-> None, success |-> FALSE])
    /\ UNCHANGED <<cacheState, backendTables, orderTables, webhookTables, settings, resp>>

\* INSERT INTO client_referrals ...; referred_client_id is UNIQUE and the
\* exception of a second insert is swallowed.
InsertReferral(db, client_id, referrer_id) ==
    IF db.referrals[client_id] = NoReferral
    THEN [db EXCEPT !.referrals[client_id] =
             [referrer_client_id |-> referrer_id, status |-> "pending", total_deposits |-> 0]]
    ELSE db

\* What the next statement of a call of apply_referral_code does to the
\* tables and to the call: every fetch_one and every execute is a step.
ApplyStep(db, p) ==
    LET at(pc) == [p EXCEPT !.pc = pc]
        same(q) == [db |-> db, proc |-> q]
    IN CASE p.pc = "fetch_client" ->
              LET client == db.clients[p.client_id]
              IN IF client.referral_locked \/ client.referred_by_code # None
                 THEN same(at("done"))
                 ELSE same(at("fetch_referrer"))
         [] p.pc = "fetch_referrer" ->
              LET owners == ClientsByCode(db, p.referral_code)
                  referrer_id == CHOOSE c \in owners : TRUE
                  referrer == db.clients[referrer_id]
              IN IF owners = {} \/ referrer_id = p.client_id
                 THEN same(at("done"))
                 ELSE same([at(IF referrer.referred_by_code # None
                               THEN "fetch_referrer_referrer" ELSE "update_client")
                            EXCEPT !.referrer_id = referrer_id, !.referrer = Some(referrer)])
         [] p.pc = "fetch_referrer_referrer" ->
              IF p.client_id \in ReferrerOfReferrer(db, p.referrer[1])
              THEN same(at("done"))
              ELSE same(at("update_client"))
         [] p.pc = "update_client" ->
              [db |-> [db EXCEPT !.clients[p.client_id].referred_by_code = Some(p.referral_code)],
               proc |-> at("insert_referral")]
         [] p.pc = "insert_referral" ->
              [db |-> InsertReferral(db, p.client_id, p.referrer_id),
               proc |-> at("inc_count")]
         [] p.pc = "inc_count" ->
              [db |-> [db EXCEPT !.clients[p.referrer_id].referral_count = @ + 1],
               proc |-> [at("done") EXCEPT !.success = TRUE]]

\* One statement of a call in progress.
apply_referral_code_step(r) ==
    /\ r \in DOMAIN procs
    /\ procs[r].pc # "done"
    /\ LET step == ApplyStep(DB, procs[r])
       IN /\ clients' = step.db.clients
          /\ referrals' = step.db.referrals
          /\ orders' = step.db.orders
          /\ ledger' = step.db.ledger
          /\ procs' = [procs EXCEPT ![r] = step.proc]
    /\ UNCHANGED <<cacheState, orderTables, webhookTables, settings, resp>>

NextApply ==
    \/ \E c \in ApplicantIds, code \in ApplyCodes : start_apply_referral_code(c, code)
    \/ \E r \in 1..MaxProcs : apply_referral_code_step(r)

SpecApply == InitApply /\ [][NextApply]_vars

\* ------------------------------------------------ v1 API: webhook deliveries
\* The number of events of a run, and the number of deliveries that may have
\* failed, one after the other, before the run starts.
MaxDeliveries == 2

MaxPriorDeliveries == 3

\* APIv1Settings
webhook_retry_attempts == 3

webhook_retry_delay_seconds == 5

\* if webhook and webhook['failure_count'] >= 10
failure_threshold == 10

\* The answers of the subscriber's endpoint.
ResponseStatuses == {200, 500}

\* 200 <= response.status_code < 300
IsSuccess(status_code) == 200 <= status_code /\ status_code < 300

\* uuid4 webhook ids, in the order in which they are generated.
WebhookIdOf == <<"w1", "w2", "w3", "w4">>

\* WebhookEvent values used, and the owners (api_users.user_id).
EventTypes == {"order.created", "order.completed"}

WebhookUsers == {"u1", "u2"}

\* A URL, as its scheme and the rest.
Url(scheme, rest) == [scheme |-> scheme, rest |-> rest]

\* The api_webhooks row that register_webhook inserts: is_active and
\* failure_count have their column defaults.
NewWebhook(user_id, webhook_url, subscribed_events, signing_secret) ==
    [user_id |-> user_id, webhook_url |-> webhook_url, signing_secret |-> signing_secret,
     subscribed_events |-> subscribed_events, is_active |-> TRUE, failure_count |-> 0]

\* The three tables as one value.
WH ==
    [api_webhooks |-> api_webhooks,
     api_webhook_deliveries |-> api_webhook_deliveries,
     delivery_tasks |-> delivery_tasks]

\* One webhook has been registered (register_webhook) and is subscribed to
\* the event: is_active and failure_count have their column defaults.
Registered ==
    [api_webhooks |-> ("w1" :> NewWebhook("u1", Url("https://", "a"), {"order.created"}, "s1")),
     api_webhook_deliveries |-> << >>,
     delivery_tasks |-> << >>]

\* Mutant of OwnedBy: the owner is not looked at.
OwnedBy_anyone(webhook, user_id) == TRUE

\* if user_id: query += " AND user_id = $2"
OwnedBy(webhook, user_id) == TruthyStr(user_id) => webhook.user_id = user_id[1]

\* get_webhooks_for_event: WHERE is_active = TRUE AND $1 = ANY(subscribed_events)
get_webhooks_for_event(wh, event_type, user_id) ==
    {w \in DOMAIN wh.api_webhooks :
        /\ wh.api_webhooks[w].is_active
        /\ event_type \in wh.api_webhooks[w].subscribed_events
        /\ OwnedBy(wh.api_webhooks[w], user_id)}

\* The row that trigger_webhooks inserts for an event (attempt_count has its
\* default; payload is the number of the event, 0 for the events before the
\* run) and the task it creates: deliver_webhook(delivery_id), attempt = 1,
\* not yet run. posts counts the requests sent, waits lists the sleeps, in
\* seconds.
NewDelivery(webhook_id, event_type, event) ==
    [webhook_id |-> webhook_id, event_type |-> event_type, payload |-> event,
     status |-> "pending", attempt_count |-> 1]

\* A task that has returned.
Returned == [pc |-> "done", attempt |-> 0, posts |-> 0, waits |-> << >>]

\* Mutant of NewTask: no task is created for the delivery.
NewTask_not_created == Returned

NewTask == [pc |-> "post", attempt |-> 1, posts |-> 0, waits |-> << >>]

\* The body of the loop of trigger_webhooks, for one of the webhooks found.
TriggerFor(wh, webhook_id, event_type, event) ==
    [wh EXCEPT !.api_webhook_deliveries = Append(@, NewDelivery(webhook_id, event_type, event)),
               !.delivery_tasks = Append(@, NewTask)]

\* for webhook in webhooks
RECURSIVE TriggerEach(_, _, _, _)
TriggerEach(wh, webhooks, event_type, event) ==
    IF webhooks = {} THEN wh
    ELSE LET w == CHOOSE x \in webhooks : TRUE
         IN TriggerEach(TriggerFor(wh, w, event_type, event), webhooks \ {w}, event_type, event)

\* trigger_webhooks(event_type, data, user_id); event stands for data.
TriggerWebhooks(wh, event_type, user_id, event) ==
    TriggerEach(wh, get_webhooks_for_event(wh, event_type, user_id), event_type, event)

\* Mutant of ShouldRetry: the last allowed attempt is retried once more.
ShouldRetry_inclusive(attempt) == attempt <= webhook_retry_attempts

\* if attempt < settings.webhook_retry_attempts
ShouldRetry(attempt) == attempt < webhook_retry_attempts

\* delay = settings.webhook_retry_delay_seconds * (2 ** (attempt - 1))
RetryDelay(attempt) == webhook_retry_delay_seconds * 2 ^ (attempt - 1)

\* Mutant of ResetFailures: the failure count is left as it is.
ResetFailures_kept(webhook) == webhook

\* UPDATE api_webhooks SET failure_count = 0
ResetFailures(webhook) == [webhook EXCEPT !.failure_count = 0]

\* Mutant of ShouldDeactivate: the webhook is never deactivated.
ShouldDeactivate_never(webhook) == FALSE

\* if webhook and webhook['failure_count'] >= 10
ShouldDeactivate(webhook) == webhook.failure_count >= failure_threshold

\* One database statement (or the request) of deliver_webhook for delivery d;
\* status_code is the answer when the step is the request. The SELECT at the
\* head of each call reads columns that no statement writes (payload, url,
\* secret, webhook_id) and is part of the request step.
DeliverStep(wh, d, status_code) ==
    LET t == wh.delivery_tasks[d]
        w == wh.api_webhook_deliveries[d].webhook_id
    IN CASE t.pc = "post" ->
              [wh EXCEPT !.delivery_tasks[d] =
                  [t EXCEPT !.posts = @ + 1,
                            !.pc = IF IsSuccess(status_code)
                                   THEN "mark_delivered" ELSE "record_failure"]]
         [] t.pc = "mark_delivered" ->
              [wh EXCEPT !.api_webhook_deliveries[d].status = "delivered",
                         !.api_webhook_deliveries[d].attempt_count = t.attempt,
                         !.delivery_tasks[d].pc = "reset_failures"]
         [] t.pc = "reset_failures" ->
              [wh EXCEPT !.api_webhooks[w] = ResetFailures(@),
                         !.delivery_tasks[d] = Returned]
         [] t.pc = "record_failure" ->
              [wh EXCEPT !.api_webhook_deliveries[d].status = "failed",
                         !.api_webhook_deliveries[d].attempt_count = t.attempt,
                         !.delivery_tasks[d].pc = "count_failure"]
         [] t.pc = "count_failure" ->
              [wh EXCEPT !.api_webhooks[w].failure_count = @ + 1,
                         !.delivery_tasks[d].pc =
                             IF ShouldRetry(t.attempt) THEN "mark_retrying" ELSE "mark_failed"]
         [] t.pc = "mark_retrying" ->
              \* status = 'retrying', then asyncio.sleep(delay) and
              \* deliver_webhook(delivery_id, attempt + 1)
              [wh EXCEPT !.api_webhook_deliveries[d].status = "retrying",
                         !.delivery_tasks[d] =
                             [t EXCEPT !.waits = Append(@, RetryDelay(t.attempt)),
                                       !.attempt = @ + 1,
                                       !.pc = "post"]]
         [] t.pc = "mark_failed" ->
              [wh EXCEPT !.api_webhook_deliveries[d].status = "failed",
                         !.delivery_tasks[d].pc = "read_failures"]
         [] t.pc = "read_failures" ->
              IF ShouldDeactivate(wh.api_webhooks[w])
              THEN [wh EXCEPT !.delivery_tasks[d].pc = "deactivate"]
              ELSE [wh EXCEPT !.delivery_tasks[d] = Returned]
         [] t.pc = "deactivate" ->
              [wh EXCEPT !.api_webhooks[w].is_active = FALSE,
                         !.delivery_tasks[d] = Returned]
         [] OTHER -> wh

\* deliver_webhook run to its end on an endpoint that always gives one answer.
RECURSIVE RunDelivery(_, _, _)
RunDelivery(wh, d, status_code) ==
    IF wh.delivery_tasks[d].pc = "done" THEN wh
    ELSE RunDelivery(DeliverStep(wh, d, status_code), d, status_code)

\* n events, one after the other, each delivered to an endpoint that answers
\* 500 to every request.
RECURSIVE FailedDeliveries(_, _)
FailedDeliveries(wh, n) ==
    IF n = 0 THEN wh
    ELSE LET triggered == TriggerWebhooks(wh, "order.created", Some("u1"), 0)
         IN FailedDeliveries(
                IF Len(triggered.delivery_tasks) > Len(wh.delivery_tasks)
                THEN RunDelivery(triggered, Len(triggered.delivery_tasks), 500)
                ELSE triggered,
                n - 1)

\* The webhook is registered and n earlier deliveries have failed, for some n
\* of the set.
InitWebhookAfter(prior_deliveries) ==
    /\ clients = [c \in ClientIds |-> NewClient(c)]
    /\ referrals = [c \in ClientIds |-> NoReferral]
    /\ orders = << >>
    /\ ledger = << >>
    /\ api_orders = << >>
    /\ api_audit_logs = << >>
    /\ \E n \in prior_deliveries :
          LET start == FailedDeliveries(Registered, n)
          IN /\ api_webhooks = start.api_webhooks
             /\ api_webhook_deliveries = start.api_webhook_deliveries
             /\ delivery_tasks = start.delivery_tasks
    /\ settings = get_default_settings
    /\ procs = << >>
    /\ settings_cache = invalidate_settings_cache
    /\ clock = 0
    /\ resp = NoResponse

InitWebhook == InitWebhookAfter(0..MaxPriorDeliveries)

\* The deliveries whose task has not returned.
InProgress == {d \in DOMAIN delivery_tasks : delivery_tasks[d].pc # "done"}

\* The events of the run that have been triggered.
Events == {api_webhook_deliveries[d].payload : d \in DOMAIN api_webhook_deliveries} \ {0}

StoreWebhooks(wh, response) ==
    /\ api_webhooks' = wh.api_webhooks
    /\ api_webhook_deliveries' = wh.api_webhook_deliveries
    /\ delivery_tasks' = wh.delivery_tasks
    /\ resp' = response
    /\ UNCHANGED <<cacheState, backendTables, orderTables, settings, procs>>

\* trigger_webhooks(event_type, data, user_id): one delivery row and one task
\* for each webhook found; the events of a run are numbered as they come.
trigger_webhooks(event_type, user_id, event) ==
    /\ event = Cardinality(Events) + 1
    /\ StoreWebhooks(TriggerWebhooks(WH, event_type, user_id, event),
                     [kind |-> "trigger", event_type |-> event_type, user_id |-> user_id])

\* One step of one deliver_webhook task; the tasks interleave at every await.
deliver_webhook(d) ==
    /\ delivery_tasks[d].pc # "done"
    /\ \E status_code \in (IF delivery_tasks[d].pc = "post" THEN ResponseStatuses ELSE {0}) :
          StoreWebhooks(DeliverStep(WH, d, status_code), [kind |-> "deliver"])

\* delete_webhook: UPDATE api_webhooks SET is_active = FALSE
\* WHERE webhook_id = $1 AND user_id = $2
delete_webhook(user_id, webhook_id) ==
    /\ webhook_id \in DOMAIN api_webhooks
    /\ api_webhooks[webhook_id].is_active
    /\ StoreWebhooks(
          IF api_webhooks[webhook_id].user_id = user_id
          THEN [WH EXCEPT !.api_webhooks[webhook_id].is_active = FALSE]
          ELSE WH,
          [kind |-> "delete"])

\* The route handler of order creation calls
\* trigger_webhooks("order.created", ..., auth.user_id).
NextWebhook ==
    \/ \E event \in 1..MaxDeliveries : trigger_webhooks("order.created", Some("u1"), event)
    \/ \E d \in DOMAIN delivery_tasks : deliver_webhook(d)
    \/ \E w \in DOMAIN api_webhooks : delete_webhook("u1", w)

SpecWebhook == InitWebhook /\ [][NextWebhook]_vars

\* The event loop runs a task that is ready, and every request made with a
\* timeout is answered or times out: while a task has a step to take, a step
\* of some task is taken.
SpecWebhookFair ==
    /\ InitWebhookAfter({0, MaxPriorDeliveries})
    /\ [][NextWebhook]_vars
    /\ WF_vars(\E d \in DOMAIN delivery_tasks : deliver_webhook(d))

\* ------------------------------- v1 API: webhook registration and triggering
MaxWebhooks == 2

UrlInputs == {Url("https://", "a"), Url("ftp://", "a")}

\* webhook_url.startswith(('http://', 'https://'))
ValidUrl(webhook_url) == webhook_url.scheme \in {"http://", "https://"}

EventSets == {{"order.created"}, {"order.completed"}}

\* SELECT webhook_id FROM api_webhooks
\* WHERE user_id = $1 AND webhook_url = $2 AND is_active = TRUE
ExistingWebhooks(rows, user_id, webhook_url) ==
    {w \in DOMAIN rows : /\ rows[w].user_id = user_id
                         /\ rows[w].webhook_url = webhook_url
                         /\ rows[w].is_active}

InitTrigger ==
    /\ clients = [c \in ClientIds |-> NewClient(c)]
    /\ referrals = [c \in ClientIds |-> NoReferral]
    /\ orders = << >>
    /\ ledger = << >>
    /\ api_orders = << >>
    /\ api_audit_logs = << >>
    /\ api_webhooks = << >>
    /\ api_webhook_deliveries = << >>
    /\ delivery_tasks = << >>
    /\ settings = get_default_settings
    /\ procs = << >>
    /\ settings_cache = invalidate_settings_cache
    /\ clock = 0
    /\ resp = NoResponse

\* register_webhook (service); the new webhook_id is a fresh uuid.
register_webhook(user_id, webhook_url, subscribed_events, signing_secret) ==
    LET webhook_id == WebhookIdOf[Cardinality(DOMAIN api_webhooks) + 1]
    IN /\ UNCHANGED <<cacheState, backendTables, api_orders, api_webhook_deliveries, delivery_tasks,
                      settings, procs>>
       /\ IF ~ValidUrl(webhook_url)
          THEN /\ resp' = [kind |-> "register", ok |-> FALSE, error |-> "INVALID_WEBHOOK_URL"]
               /\ UNCHANGED <<api_webhooks, api_audit_logs>>
          ELSE IF ExistingWebhooks(api_webhooks, user_id, webhook_url) # {}
          THEN /\ resp' = [kind |-> "register", ok |-> FALSE,
                           error |-> "WEBHOOK_REGISTRATION_FAILED"]
               /\ UNCHANGED <<api_webhooks, api_audit_logs>>
          ELSE /\ Cardinality(DOMAIN api_webhooks) < MaxWebhooks
               /\ api_webhooks' =
                      api_webhooks @@ (webhook_id :> NewWebhook(user_id, webhook_url,
                                                                 subscribed_events,
                                                                 signing_secret))
               /\ api_audit_logs' = Append(api_audit_logs,
                      [user_id |-> user_id, action |-> "webhook.registered",
                       resource_id |-> webhook_id])
               /\ resp' = [kind |-> "register", ok |-> TRUE, error |-> ""]

\* The callers of trigger_webhooks pass the user; None stands for a call
\* without user_id.
UserInputs == {None} \cup {Some(u) : u \in WebhookUsers}

NextTrigger ==
    \/ \E u \in WebhookUsers, url \in UrlInputs, e \in EventSets :
          register_webhook(u, url, e, "s1")
    \/ \E u \in WebhookUsers, w \in DOMAIN api_webhooks : delete_webhook(u, w)
    \/ \E t \in EventTypes, u \in UserInputs, event \in 1..MaxDeliveries :
          trigger_webhooks(t, u, event)

SpecTrigger == InitTrigger /\ [][NextTrigger]_vars

\* ------------------------------------------- v1 API: webhook signatures
\* A string is the sequence of its pieces.  The payload column holds either
\* the JSON text (what the driver returns for JSONB) or a decoded object, a
\* sequence of <<key, value>> pairs.
PayloadStrings ==
    {<<"{", "\"event\"", ": ", "\"order.created\"", "}">>,
     <<"{", "\"event\"", ":", "\"order.created\"", "}">>,
     <<"{", "\"event\"", ": ", "\"order.completed\"", "}">>,
     <<"{", "}">>}

PayloadObjects ==
    {<< >>, <<<<"event", "order.created">>>>,
     <<<<"event", "order.created">>, <<"amount", "100">>>>}

StoredPayloads ==
    {[type |-> "str", value |-> v] : v \in PayloadStrings}
    \cup {[type |-> "dict", value |-> v] : v \in PayloadObjects}

Secrets == {"s1", "s2", "s3"}

\* json.dumps(obj) with the default separators (', ', ': ').
RECURSIVE JsonItems(_)
JsonItems(pairs) ==
    IF pairs = << >> THEN << >>
    ELSE <<"\"" \o pairs[1][1] \o "\"", ": ", "\"" \o pairs[1][2] \o "\"">>
         \o (IF Len(pairs) > 1 THEN <<", ">> ELSE << >>)
         \o JsonItems(Tail(pairs))

json_dumps(obj) == <<"{">> \o JsonItems(obj) \o <<"}">>

\* s.encode('utf-8'): the bytes of the string.
Utf8(s) == [encoding |-> "utf-8", of |-> s]

\* Mutant of HmacSha256: the digest does not depend on the message.
HmacSha256_of_key_only(key, msg) ==
    [algorithm |-> "hmac-sha256", key |-> key, msg |-> Utf8(<< >>)]

\* hmac.new(key, msg, hashlib.sha256): the digest, taken as free of
\* collisions, is the pair it was computed from.
HmacSha256(key, msg) == [algorithm |-> "hmac-sha256", key |-> key, msg |-> msg]

hexdigest(digest) == [hex |-> digest]

generate_hmac_signature(payload, secret) ==
    hexdigest(HmacSha256(Utf8(secret), Utf8(payload)))

\* hmac.compare_digest(expected, signature)
verify_hmac_signature(payload, signature, secret) ==
    generate_hmac_signature(payload, secret) = signature

\* payload_str = delivery['payload'] if isinstance(delivery['payload'], str)
\*               else json.dumps(delivery['payload'])
PayloadStr(payload) ==
    IF payload.type = "str" THEN payload.value ELSE json_dumps(payload.value)

\* The request that deliver_webhook sends for a delivery of a webhook.
BuildRequest(delivery, webhook) ==
    LET payload_str == PayloadStr(delivery.payload)
        signature == generate_hmac_signature(payload_str, webhook.signing_secret)
    IN [content |-> payload_str,
        signature_header |-> [prefix |-> "sha256=", signature |-> signature],
        event_header |-> delivery.event_type]

InitSignature ==
    /\ clients = [c \in ClientIds |-> NewClient(c)]
    /\ referrals = [c \in ClientIds |-> NoReferral]
    /\ orders = << >>
    /\ ledger = << >>
    /\ api_orders = << >>
    /\ api_audit_logs = << >>
    /\ \E secret \in Secrets :
          api_webhooks = ("w1" :> NewWebhook("u1", Url("https://", "a"), {"order.created"},
                                             secret))
    /\ \E payload \in StoredPayloads :
          api_webhook_deliveries = <<NewDelivery("w1", "order.created", payload)>>
    /\ delivery_tasks = <<NewTask>>
    /\ settings = get_default_settings
    /\ procs = << >>
    /\ settings_cache = invalidate_settings_cache
    /\ clock = 0
    /\ resp = NoResponse

\* The request of an attempt of deliver_webhook, as the receiver gets it.
send_request(d) ==
    /\ resp' = [kind |-> "request",
                request |-> BuildRequest(api_webhook_deliveries[d],
                                         api_webhooks[api_webhook_deliveries[d].webhook_id])]
    /\ UNCHANGED <<cacheState, backendTables, orderTables, webhookTables, settings, procs>>

\* A receiver that holds the secret checks a body against the signature of
\* the request it got.
receiver_verify(secret, content) ==
    /\ resp.kind \in {"request", "verified"}
    /\ resp' = [kind |-> "verified", request |-> resp.request, content |-> content,
                valid |-> verify_hmac_signature(content, resp.request.signature_header.signature,
                                                secret)]
    /\ UNCHANGED <<cacheState, backendTables, orderTables, webhookTables, settings, procs>>

NextSignature ==
    \/ \E d \in DOMAIN api_webhook_deliveries : send_request(d)
    \/ \E content \in PayloadStrings \cup {json_dumps(o) : o \in PayloadObjects} :
          receiver_verify(api_webhooks["w1"].signing_secret, content)

SpecSignature == InitSignature /\ [][NextSignature]_vars

\* ------------------------------------------------------------------ claims
RealSign ==
    [type \in TransactionType |->
        CASE type \in {"IN", "REFERRAL_EARN", "ADJUST"} -> 1
          [] type \in {"OUT", "REAL_LOAD"} -> -1
          [] OTHER -> 0]

BonusSign ==
    [type \in TransactionType |->
        CASE type \in {"BONUS_EARN", "BONUS_ADJUST"} -> 1
          [] type = "BONUS_LOAD" -> -1
          [] OTHER -> 0]

\* The rows of a client with a given status, as positions in the ledger.
RowsOf(client_id, status) ==
    {i \in DOMAIN ledger : ledger[i].client_id = client_id /\ ledger[i].status = status}

RECURSIVE SignedSum(_, _)
SignedSum(positions, sign) ==
    IF positions = {} THEN 0
    ELSE LET i == CHOOSE j \in positions : TRUE
         IN sign[ledger[i].type] * ledger[i].amount + SignedSum(positions \ {i}, sign)

PendingInSign == [type \in TransactionType |-> IF type = "IN" THEN 1 ELSE 0]

PendingOutSign == [type \in TransactionType |-> IF type = "OUT" THEN 1 ELSE 0]

UnclampedReal(client_id) == SignedSum(RowsOf(client_id, "confirmed"), RealSign)

UnclampedBonus(client_id) == SignedSum(RowsOf(client_id, "confirmed"), BonusSign)

\* C1: the balances returned for a client are max(0, IN - OUT - REAL_LOAD +
\* REFERRAL_EARN + ADJUST) and max(0, BONUS_EARN - BONUS_LOAD + BONUS_ADJUST)
\* over that client's confirmed rows only; pending_in and pending_out are the
\* sums of its pending IN and OUT rows.  Rows that are pending or rejected and
\* rows of other clients contribute nothing to a balance.
C1_BalanceFormula ==
    resp.kind = "balance" =>
        LET c == resp.client_id
            real == UnclampedReal(c)
            bonus == UnclampedBonus(c)
        IN /\ resp.wallet.real_balance = (IF real > 0 THEN real ELSE 0)
           /\ resp.wallet.bonus_balance = (IF bonus > 0 THEN bonus ELSE 0)
           /\ resp.wallet.pending_in = SignedSum(RowsOf(c, "pending"), PendingInSign)
           /\ resp.wallet.pending_out = SignedSum(RowsOf(c, "pending"), PendingOutSign)

\* A balance was read for a client that has a confirmed row next to a row
\* that must not count (pending, rejected or another client's).
C1_Witness ==
    /\ resp.kind = "balance"
    /\ resp.wallet.real_balance > 0
    /\ \E i, j \in DOMAIN ledger :
          /\ ledger[i].client_id = resp.client_id /\ ledger[i].status = "confirmed"
          /\ ledger[j].type \in {"IN", "ADJUST", "REFERRAL_EARN"}
          /\ \/ ledger[j].client_id # resp.client_id
             \/ ledger[j].status # "confirmed"

\* C2: whatever the ledger holds, the real and the bonus balance computed for
\* any client are never negative.
C2_BalancesNonNegative ==
    \A c \in ClientIds :
        /\ calculate_wallet_balances(ledger, c).real_balance >= 0
        /\ calculate_wallet_balances(ledger, c).bonus_balance >= 0

\* A balance was read for a client whose confirmed rows sum to less than zero.
C2_Witness ==
    /\ resp.kind = "balance"
    /\ \/ UnclampedReal(resp.client_id) < 0 /\ resp.wallet.real_balance = 0
       \/ UnclampedBonus(resp.client_id) < 0 /\ resp.wallet.bonus_balance = 0

\* The ledger rows carrying an order_id, as positions in the ledger.
TransactionsOf(rows, order_id) == {i \in DOMAIN rows : rows[i].order_id = order_id}

\* C3: confirmation is atomic: in every reachable state, the state left by a
\* confirm request that stopped between its two writes included, an order is
\* confirmed if and only if the ledger transaction of that order is confirmed.
C3_ConfirmAtomic ==
    \A o \in DOMAIN orders :
        orders[o].status = "confirmed"
            <=> \E i \in TransactionsOf(ledger, o) : ledger[i].status = "confirmed"

\* C4: a confirm, edit or reject request, through any entry point, on an order
\* that is confirmed, rejected or cancelled returns an error and changes no
\* order, no ledger row, no client row and no referral record.
C4_TerminalRejects ==
    [][(/\ resp'.kind \in {"confirm", "edit", "reject"}
        /\ resp'.order_id \in DOMAIN orders
        /\ orders[resp'.order_id].status \in TerminalStates)
       => (/\ ~resp'.ok
           /\ orders' = orders
           /\ ledger' = ledger
           /\ clients' = clients
           /\ referrals' = referrals)]_vars

\* An edit request has just failed on a confirmed order, and a reject request
\* on a rejected one.
C4_Witness ==
    /\ resp.kind \in {"confirm", "edit", "reject"}
    /\ ~resp.ok
    /\ resp.order_id \in DOMAIN orders
    /\ orders[resp.order_id].status \in {"confirmed", "rejected"}
    /\ \E i \in TransactionsOf(ledger, resp.order_id) :
          ledger[i].status = orders[resp.order_id].status

\* C5: every successful confirmation of a deposit order (order_type create),
\* through admin confirm_order, confirm_cash_in, process_order_action or the
\* panel action received, calls process_referral_on_deposit exactly once, with
\* the client of the order and the amount the order ends with.
C5_ConfirmInvokesReferral ==
    [][(/\ resp'.kind = "confirm"
        /\ resp'.ok
        /\ resp'.order_id \in DOMAIN orders
        /\ orders[resp'.order_id].order_type = "create")
       => resp'.referral_calls =
              <<ReferralCall(orders[resp'.order_id].client_id,
                             orders'[resp'.order_id].amount)>>]_vars

\* C6: a successful edit leaves original_amount at the amount the order was
\* created with (the first edit records the amount the order had until then,
\* every later edit keeps what was recorded), sets amount to the new amount,
\* and the ledger transaction of the order carries the same two values.
C6_EditKeepsOriginal ==
    [][(resp'.kind = "edit" /\ resp'.ok)
       => LET o == resp'.order_id
          IN /\ orders'[o].original_amount =
                    (IF orders[o].original_amount = None
                     THEN Some(orders[o].amount)
                     ELSE orders[o].original_amount)
             /\ orders'[o].amount = resp'.new_amount
             /\ \A i \in TransactionsOf(ledger', o) :
                   /\ ledger'[i].amount = orders'[o].amount
                   /\ ledger'[i].original_amount = orders'[o].original_amount]_vars

\* C7: a successful reject of a pending order sets the order and its ledger
\* transaction to rejected and changes nothing else: no client row, no
\* referral record, no other order, no other ledger row, and no row is added.
C7_RejectFrame ==
    [][(resp'.kind = "reject" /\ resp'.ok)
       => LET o == resp'.order_id
          IN /\ o \in DOMAIN orders
             /\ orders[o].status \in PendingStates
             /\ orders' = [orders EXCEPT ![o].status = "rejected"]
             /\ TransactionsOf(ledger, o) # {}
             /\ ledger' = [i \in DOMAIN ledger |->
                              IF i \in TransactionsOf(ledger, o)
                              THEN [ledger[i] EXCEPT !.status = "rejected"]
                              ELSE ledger[i]]
             /\ clients' = clients
             /\ referrals' = referrals]_vars

\* A pending order has just been rejected, with its ledger transaction.
C7_Witness ==
    /\ resp.kind = "reject"
    /\ resp.ok
    /\ orders[resp.order_id].status = "rejected"
    /\ \E i \in TransactionsOf(ledger, resp.order_id) : ledger[i].status = "rejected"

\* C8: create_order is idempotent on the key: a call that follows a successful
\* call with the same idempotency_key returns the same order_id, leaves every
\* api_orders row as it was, and exactly one row carries the key.
C8_CreateIdempotent ==
    [][(/\ resp.kind = "create_order"
        /\ resp.ok
        /\ resp.idempotency_key # None
        /\ resp'.kind = "create_order"
        /\ resp'.idempotency_key = resp.idempotency_key)
       => (/\ resp'.ok
           /\ resp'.order_id = resp.order_id
           /\ api_orders' = api_orders
           /\ Cardinality(OrdersByKey(api_orders', resp.idempotency_key)) = 1)]_vars

\* The applicant submitted its own code.
OwnCode(c, code) == clients[c].referral_code = code

\* The owner of the submitted code was itself referred by the applicant.
Circular(c, code) ==
    \E r \in ClientIds :
        /\ clients[r].referral_code = code
        /\ clients[r].referred_by_code = Some(clients[c].referral_code)

\* C9: apply_referral_code fails and changes no client row, no referral
\* record and no counter when the code is the applicant's own, when the owner
\* of the code was referred by the applicant, when the applicant is locked,
\* or when the applicant already has a referred_by_code.
C9_ApplyRejected ==
    [][(/\ resp'.kind = "apply"
        /\ LET c == resp'.client_id
               code == UpperStrip(resp'.referral_code)
           IN \/ OwnCode(c, code)
              \/ Circular(c, code)
              \/ clients[c].referral_locked
              \/ clients[c].referred_by_code # None)
       => (/\ ~resp'.ok
           /\ clients' = clients
           /\ referrals' = referrals
           /\ orders' = orders
           /\ ledger' = ledger)]_vars

\* A circular application has just been refused: the applicant is neither
\* locked nor referred, and the code belongs to a client it referred.
C9_Witness ==
    /\ resp.kind = "apply"
    /\ ~resp.ok
    /\ ~clients[resp.client_id].referral_locked
    /\ clients[resp.client_id].referred_by_code = None
    /\ ~OwnCode(resp.client_id, UpperStrip(resp.referral_code))
    /\ Circular(resp.client_id, UpperStrip(resp.referral_code))

\* The clients referred by a referrer that have a confirmed deposit.
DepositedReferrals(referrer_id) ==
    {c \in ClientIds :
        /\ referrals[c].referrer_client_id = referrer_id
        /\ \E i \in DOMAIN ledger :
              /\ ledger[i].client_id = c
              /\ ledger[i].type = "IN"
              /\ ledger[i].status = "confirmed"}

\* C10: a referrer's valid_referral_count is the number of distinct clients it
\* referred that have at least one confirmed deposit, and the referral record
\* of a referred client is valid exactly when that client has one.
C10_ValidCountIsDepositors ==
    \A r \in ClientIds :
        /\ clients[r].valid_referral_count = Cardinality(DepositedReferrals(r))
        /\ \A c \in ClientIds :
              referrals[c].referrer_client_id = r
                  => (referrals[c].status = "valid" <=> c \in DepositedReferrals(r))

\* The client whose deposit the last response confirms, and its referrer
\* ("" when it has no referral record).
Depositor == resp'.referral_calls[1].client_id

ReferrerOfDepositor == referrals[Depositor].referrer_client_id

\* The rows a step appends to the ledger, as positions, by type.
NewRows(type) ==
    {i \in (Len(ledger) + 1)..Len(ledger') : ledger'[i].type = type}

\* A deposit of a referred client has just been processed.
ReferredDeposit == resp'.kind = "deposit" /\ ReferrerOfDepositor # ""

\* The configured milestones whose threshold is passed when the count goes
\* from before to after.
MilestonesReached(before, after) ==
    {i \in DOMAIN settings.bonus_rules.milestones :
        /\ settings.bonus_rules.milestones[i].referrals_required > before
        /\ settings.bonus_rules.milestones[i].referrals_required <= after}

\* C11: with a milestone configured at 5 referrals, the deposit that takes the
\* referrer's valid_referral_count from 4 to 5 writes exactly one confirmed
\* BONUS_EARN row for the referrer, of that milestone's bonus_amount, and adds
\* exactly 1 to the referrer's bonus_claims.
C11_MilestoneAtFive ==
    [][(/\ ReferredDeposit
        /\ clients[ReferrerOfDepositor].valid_referral_count = 4
        /\ clients'[ReferrerOfDepositor].valid_referral_count = 5
        /\ MilestonesReached(4, 5) # {})
       => (/\ Cardinality(NewRows("BONUS_EARN")) = 1
           /\ \A i \in NewRows("BONUS_EARN"), m \in MilestonesReached(4, 5) :
                 /\ ledger'[i].client_id = ReferrerOfDepositor
                 /\ ledger'[i].status = "confirmed"
                 /\ ledger'[i].amount = settings.bonus_rules.milestones[m].bonus_amount
           /\ clients'[ReferrerOfDepositor].bonus_claims
                  = clients[ReferrerOfDepositor].bonus_claims + 1)]_vars

\* C12: a deposit that raises the referrer's valid_referral_count to a value
\* at which no configured milestone threshold is reached writes no BONUS_EARN
\* row and leaves the referrer's bonus_claims unchanged.
C12_NoMilestoneNoBonus ==
    [][(/\ ReferredDeposit
        /\ clients'[ReferrerOfDepositor].valid_referral_count
               = clients[ReferrerOfDepositor].valid_referral_count + 1
        /\ MilestonesReached(clients[ReferrerOfDepositor].valid_referral_count,
                             clients'[ReferrerOfDepositor].valid_referral_count) = {})
       => (/\ NewRows("BONUS_EARN") = {}
           /\ clients'[ReferrerOfDepositor].bonus_claims
                  = clients[ReferrerOfDepositor].bonus_claims)]_vars

\* The commission on a deposit at the configured tier for a count.
ConfiguredCommission(deposit_amount, valid_referral_count) ==
    (deposit_amount
     * calculate_referral_tier_async(settings.referral_tier_config, valid_referral_count).percentage)
    \div 100

\* C14: every confirmed deposit of amount A by a client that has a referrer
\* and a referral record writes exactly one confirmed REFERRAL_EARN row for
\* the referrer, of amount A * p / 100 with p the percentage of the tier that
\* the configured tier table gives for the referrer's valid_referral_count
\* (the count before or after this deposit is accepted).
C14_CommissionFromSettings ==
    [][ReferredDeposit
       => (/\ Cardinality(NewRows("REFERRAL_EARN")) = 1
           /\ \A i \in NewRows("REFERRAL_EARN") :
                 /\ ledger'[i].client_id = ReferrerOfDepositor
                 /\ ledger'[i].status = "confirmed"
                 /\ ledger'[i].amount \in
                       {ConfiguredCommission(resp'.referral_calls[1].deposit_amount,
                                             clients[ReferrerOfDepositor].valid_referral_count),
                        ConfiguredCommission(resp'.referral_calls[1].deposit_amount,
                                             clients'[ReferrerOfDepositor].valid_referral_count)})]_vars

\* C16: when the fraud check, with anti-fraud enabled and auto_reject_fraud
\* set, raises a flag for a referred client at its first confirmed deposit,
\* the referral record becomes fraud, the referrer's valid_referral_count is
\* unchanged and no REFERRAL_EARN or BONUS_EARN row is written.
C16_FraudBlocksReferral ==
    [][(/\ ReferredDeposit
        /\ referrals[Depositor].status = "pending"
        /\ check_referral_fraud(settings.anti_fraud, clients[ReferrerOfDepositor],
                                clients[Depositor], None,
                                AccountAgeMinutes(Depositor)).should_reject)
       => (/\ referrals'[Depositor].status = "fraud"
           /\ clients'[ReferrerOfDepositor].valid_referral_count
                  = clients[ReferrerOfDepositor].valid_referral_count
           /\ NewRows("REFERRAL_EARN") = {}
           /\ NewRows("BONUS_EARN") = {})]_vars

\* The stored tiers whose min_referrals is at most n, as positions.
EligibleTiers(n) ==
    {i \in DOMAIN settings.referral_tier_config :
        settings.referral_tier_config[i].min_referrals <= n}

\* Of those, the ones with the greatest min_referrals.
BestTiers(n) ==
    {i \in EligibleTiers(n) :
        \A j \in EligibleTiers(n) :
            settings.referral_tier_config[j].min_referrals
                <= settings.referral_tier_config[i].min_referrals}

\* C13: for every tier table, in whatever order it is stored, and every count
\* n, the lookup returns the commission percentage of the tier with the
\* greatest min_referrals that is at most n (of one of them when several
\* tiers share that min_referrals).
C13_TierLookup ==
    (resp.kind = "tier" /\ EligibleTiers(resp.valid_referral_count) # {})
        => resp.percentage \in
               {settings.referral_tier_config[i].commission_percentage :
                    i \in BestTiers(resp.valid_referral_count)}

\* The lookup for n = 9 on the table {0: 5%, 5: 6%, 10: 7%}, stored with the
\* highest tier first, has answered 6%.
C13_Witness ==
    /\ resp.kind = "tier"
    /\ resp.valid_referral_count = 9
    /\ settings.referral_tier_config = <<Tier(10, 7), Tier(0, 5), Tier(5, 6)>>
    /\ resp.percentage = 6

\* Every call that was started has returned.
AllReturned == \A c \in DOMAIN procs : procs[c].pc = "done"

\* The number of BONUS_EARN rows of an amount.
BonusRows(rows, amount) ==
    Cardinality({i \in DOMAIN rows : rows[i].type = "BONUS_EARN" /\ rows[i].amount = amount})

\* The tables agree with db on what was paid for milestones.
SameBonuses(db) ==
    /\ \A a \in {ledger[i].amount : i \in DOMAIN ledger}
                 \cup {db.ledger[i].amount : i \in DOMAIN db.ledger} :
          BonusRows(ledger, a) = BonusRows(db.ledger, a)
    /\ \A c \in DOMAIN clients : clients[c].bonus_claims = db.clients[c].bonus_claims

\* C15: when the confirmations of two different referred clients of one
\* referrer run concurrently, the BONUS_EARN rows and the bonus_claims they
\* leave are those that the two confirmations leave when one runs after the
\* other.
C15_ConcurrentAsSequential ==
    \A a, b \in DOMAIN procs :
        (a # b /\ DOMAIN procs = {a, b} /\ AllReturned)
            => \/ SameBonuses(DepositAll(RaceStart, <<a, b>>, 100))
               \/ SameBonuses(DepositAll(RaceStart, <<b, a>>, 100))

\* A single call, run to its end, leaves what process_referral_on_deposit leaves.
StepsAgreeWithCall ==
    \A a \in DOMAIN procs :
        (DOMAIN procs = {a} /\ AllReturned)
            => DB = process_referral_on_deposit(RaceStart, a, 100)

\* C17: in every reachable state the attempt_count of every delivery is at
\* most webhook_retry_attempts, and no delivery has been POSTed more than
\* that many times.
C17_AttemptCeiling ==
    \A d \in DOMAIN api_webhook_deliveries :
        /\ api_webhook_deliveries[d].attempt_count <= webhook_retry_attempts
        /\ delivery_tasks[d].posts <= webhook_retry_attempts

\* A delivery of the run has used its last attempt: the ceiling is reached.
C17_Witness ==
    \E d \in DOMAIN api_webhook_deliveries :
        /\ api_webhook_deliveries[d].payload > 0
        /\ api_webhook_deliveries[d].attempt_count = webhook_retry_attempts
        /\ delivery_tasks[d].posts = webhook_retry_attempts
        /\ delivery_tasks[d].pc = "mark_failed"

\* C18: a delivery to an endpoint that answers 500 to every request is
\* retried exactly webhook_retry_attempts times, the wait after failed attempt
\* n being webhook_retry_delay_seconds * 2^(n-1), and is then marked failed.
\* (Only a delivery every attempt of which has failed is marked failed for
\* good and goes on to read the failure count.)
C18_RetriedThreeTimes ==
    \A d \in DOMAIN delivery_tasks :
        delivery_tasks[d].pc = "read_failures"
            => /\ api_webhook_deliveries[d].status = "failed"
               /\ Len(delivery_tasks[d].waits) = webhook_retry_attempts
               /\ \A n \in DOMAIN delivery_tasks[d].waits :
                     delivery_tasks[d].waits[n] = webhook_retry_delay_seconds * 2 ^ (n - 1)

\* C19: once an attempt has received a 2xx answer, the delivery's status
\* becomes delivered, the webhook's failure_count is set to 0, and no further
\* attempt is made: the task returns and the row is not written again.
C19_SuccessDelivers ==
    [][\A d \in DOMAIN delivery_tasks :
          /\ (delivery_tasks[d].pc = "mark_delivered" /\ delivery_tasks'[d] # delivery_tasks[d])
                => /\ api_webhook_deliveries'[d].status = "delivered"
                   /\ delivery_tasks'[d].pc = "reset_failures"
          /\ (delivery_tasks[d].pc = "reset_failures" /\ delivery_tasks'[d] # delivery_tasks[d])
                => /\ api_webhooks'[api_webhook_deliveries[d].webhook_id].failure_count = 0
                   /\ delivery_tasks'[d].pc = "done"
          /\ api_webhook_deliveries[d].status = "delivered"
                => /\ api_webhook_deliveries'[d] = api_webhook_deliveries[d]
                   /\ delivery_tasks'[d].pc \in {"reset_failures", "done"}
                   /\ delivery_tasks'[d].posts <= delivery_tasks[d].posts]_vars

\* A delivery of the run was delivered at its second or third attempt, its
\* task has returned and the failure count its failed attempts had raised is 0.
C19_Witness ==
    \E d \in DOMAIN api_webhook_deliveries :
        /\ api_webhook_deliveries[d].payload > 0
        /\ api_webhook_deliveries[d].status = "delivered"
        /\ api_webhook_deliveries[d].attempt_count > 1
        /\ delivery_tasks[d].pc = "done"
        /\ api_webhooks[api_webhook_deliveries[d].webhook_id].failure_count = 0

\* C20: in every state in which no delivery to the webhook is in progress, a
\* failure_count of at least 10 implies is_active = false.
C20_DeactivatedAtThreshold ==
    \A w \in DOMAIN api_webhooks :
        (/\ \A d \in InProgress : api_webhook_deliveries[d].webhook_id # w
         /\ api_webhooks[w].failure_count >= failure_threshold)
            => ~api_webhooks[w].is_active

\* No delivery is in progress, a delivery of the run has failed for good and
\* the webhook, with ten failures or more, is inactive.
C20_Witness ==
    /\ InProgress = {}
    /\ \E d \in DOMAIN api_webhook_deliveries :
          /\ api_webhook_deliveries[d].payload > 0
          /\ api_webhook_deliveries[d].status = "failed"
          /\ api_webhooks[api_webhook_deliveries[d].webhook_id].failure_count >= failure_threshold
          /\ ~api_webhooks[api_webhook_deliveries[d].webhook_id].is_active

\* The delivery rows that a step inserts, as positions.
NewDeliveries == (Len(api_webhook_deliveries) + 1)..Len(api_webhook_deliveries')

\* C21: a call trigger_webhooks(event_type, data, user_id) creates exactly one
\* delivery with status pending for each webhook that is active, subscribed
\* to event_type and, when user_id is given, owned by user_id; it creates none
\* for any other webhook and leaves the earlier deliveries as they are.
C21_TriggerCreatesPending ==
    [][resp'.kind = "trigger"
       => /\ \A w \in DOMAIN api_webhooks :
                Cardinality({i \in NewDeliveries : api_webhook_deliveries'[i].webhook_id = w})
                    = IF /\ api_webhooks[w].is_active
                         /\ resp'.event_type \in api_webhooks[w].subscribed_events
                         /\ (resp'.user_id # None => api_webhooks[w].user_id = resp'.user_id[1])
                      THEN 1 ELSE 0
          /\ \A i \in NewDeliveries :
                /\ api_webhook_deliveries'[i].webhook_id \in DOMAIN api_webhooks
                /\ api_webhook_deliveries'[i].status = "pending"
                /\ api_webhook_deliveries'[i].event_type = resp'.event_type
          /\ \A i \in DOMAIN api_webhook_deliveries :
                api_webhook_deliveries'[i] = api_webhook_deliveries[i]]_vars

\* A call for one owner has just returned: two active webhooks subscribed to
\* the event exist, the caller's got its delivery and the other owner's none.
C21_Witness ==
    /\ resp.kind = "trigger"
    /\ resp.user_id = Some("u1")
    /\ \E w1, w2 \in DOMAIN api_webhooks :
          /\ api_webhooks[w1].user_id = "u1" /\ api_webhooks[w2].user_id = "u2"
          /\ api_webhooks[w1].is_active /\ api_webhooks[w2].is_active
          /\ resp.event_type \in api_webhooks[w1].subscribed_events
          /\ resp.event_type \in api_webhooks[w2].subscribed_events
          /\ \E i \in DOMAIN api_webhook_deliveries :
                /\ api_webhook_deliveries[i].webhook_id = w1
                /\ api_webhook_deliveries[i].status = "pending"
          /\ \A i \in DOMAIN api_webhook_deliveries : api_webhook_deliveries[i].webhook_id # w2

\* The bodies a receiver may be handed.
Contents == PayloadStrings \cup {json_dumps(o) : o \in PayloadObjects}

\* C22: the signature in the X-Webhook-Signature header of a request sent by
\* deliver_webhook is generate_hmac_signature of exactly the string sent as
\* the body, under the webhook's secret; verify_hmac_signature accepts the
\* body with that signature and rejects every string that differs from it.
C22_SignatureOverBody ==
    resp.kind \in {"request", "verified"}
        => LET request == resp.request
               secret == api_webhooks["w1"].signing_secret
               signature == request.signature_header.signature
           IN /\ request.signature_header.prefix = "sha256="
              /\ signature = generate_hmac_signature(request.content, secret)
              /\ verify_hmac_signature(request.content, signature, secret)
              /\ \A content \in Contents :
                    content # request.content
                        => ~verify_hmac_signature(content, signature, secret)
              /\ resp.kind = "verified" => (resp.valid <=> resp.content = request.content)

\* A receiver has rejected a body that differs from the signed one by the
\* space after the colon only.
C22_Witness ==
    /\ resp.kind = "verified"
    /\ ~resp.valid
    /\ resp.request.content = <<"{", "\"event\"", ": ", "\"order.created\"", "}">>
    /\ resp.content = <<"{", "\"event\"", ":", "\"order.created\"", "}">>

\* A delivery was created for the event of the run with this number.
Created(event) ==
    \E d \in DOMAIN api_webhook_deliveries : api_webhook_deliveries[d].payload = event

\* The delivery for the event exists and has one of the two final statuses.
Ended(event) ==
    \E d \in DOMAIN api_webhook_deliveries :
        /\ api_webhook_deliveries[d].payload = event
        /\ api_webhook_deliveries[d].status \in {"delivered", "failed"}

\* C23: under fair scheduling every delivery that trigger_webhooks creates
\* eventually has status delivered or failed for good: nothing cancels it
\* before, and nothing changes its status after.
C23_DeliveryEnds ==
    \A event \in 1..MaxDeliveries : [](Created(event) => <>[]Ended(event))

\* Two deliveries of the run have ended, one delivered and one failed, after
\* the webhook was deleted.
C23_Witness ==
    /\ InProgress = {}
    /\ \E d1, d2 \in DOMAIN api_webhook_deliveries :
          /\ api_webhook_deliveries[d1].payload > 0
          /\ api_webhook_deliveries[d2].payload > 0
          /\ api_webhook_deliveries[d1].status = "delivered"
          /\ api_webhook_deliveries[d2].status = "failed"
    /\ resp.kind = "deliver"
    /\ \E w \in DOMAIN api_webhooks :
          ~api_webhooks[w].is_active /\ api_webhooks[w].failure_count < failure_threshold


\* No step clears the flag of a client.
LockKept == \A c \in ClientIds : clients[c].referral_locked => clients'[c].referral_locked

\* After the step, every client with a confirmed deposit order is locked.
DepositLocks ==
    \A o \in DOMAIN orders' :
        (orders'[o].order_type = "create" /\ orders'[o].status = "confirmed")
            => clients'[orders'[o].client_id].referral_locked

\* An application by a locked client fails and writes nothing.
LockedApplyRejected ==
    (resp'.kind = "apply" /\ clients[resp'.client_id].referral_locked)
        => (/\ ~resp'.ok
            /\ clients' = clients
            /\ referrals' = referrals
            /\ orders' = orders
            /\ ledger' = ledger)

\* C24: referral_locked is one-way: a client is locked from its first
\* confirmed deposit on, no step sets the flag back to false, and every
\* apply_referral_code of a locked client is rejected without any change.
C24_LockOneWay == [][DepositLocks /\ LockKept /\ LockedApplyRejected]_vars


\* C25: in every reachable state every ledger transaction has an amount
\* >= 0: no order creation, order edit or admin wallet adjustment stores a
\* negative amount.
C25_AmountsNonNegative == \A i \in DOMAIN ledger : ledger[i].amount >= 0


\* The stored tier table.
StoredTiers == settings.referral_tier_config

\* C26: after any sequence of admin tier operations the stored tier table
\* has a tier with min_referrals = 0, no two tiers with the same
\* min_referrals, is sorted ascending by min_referrals, and the tier_number
\* of each tier is its index (from 0).
C26_TierTableValid ==
    /\ \E i \in DOMAIN StoredTiers : StoredTiers[i].min_referrals = 0
    /\ \A i, j \in DOMAIN StoredTiers :
          i < j => StoredTiers[i].min_referrals < StoredTiers[j].min_referrals
    /\ \A i \in DOMAIN StoredTiers : StoredTiers[i].tier_number = i - 1


\* Every request received has returned.
AllRequestsDone == \A r \in DOMAIN procs : procs[r].pc = "done"

\* C27: under any interleaving of concurrent confirm, reject and edit
\* requests on one pending order, the status of the order changes at most
\* once (a terminal status is never replaced), and once every request has
\* returned the order and its ledger transaction carry the same status.
C27_StatusChangesOnce ==
    [][\A o \in DOMAIN orders :
          /\ orders[o].status \in TerminalStates => orders'[o].status = orders[o].status
          /\ (AllRequestsDone' /\ orders'[o].status \in TerminalStates)
                => \A i \in TransactionsOf(ledger', o) : ledger'[i].status = orders'[o].status]_vars


\* The REFERRAL_EARN rows of the ledger.
ReferralEarnRows == {i \in DOMAIN ledger : ledger[i].type = "REFERRAL_EARN"}

\* C28: the deposit protocol runs at most once for the one deposit order of
\* c1 (referred by c2), however the requests on it interleave: at most one
\* REFERRAL_EARN row is written, valid_referral_count of c2 grows by at most
\* 1, and total_deposits of the referral record grows at most once, by the
\* amount of the order (100 as created, 300 as edited).
C28_ProtocolOncePerOrder ==
    /\ Cardinality(ReferralEarnRows) <= 1
    /\ clients["c2"].valid_referral_count <= 1
    /\ referrals["c1"].total_deposits \in {0, 100, 300}


\* The REFERRAL_EARN and BONUS_EARN rows of a ledger.
EarnRows(rows) == {i \in DOMAIN rows : rows[i].type \in {"REFERRAL_EARN", "BONUS_EARN"}}

\* C29: a successful confirmation of a withdrawal (order_type redeem) or of a
\* load order, through any confirm entry point, changes no client row
\* (referral_locked, the referral counters), no referral record, and writes
\* no REFERRAL_EARN or BONUS_EARN row.
C29_ReferralOnlyForDeposits ==
    [][(/\ resp'.kind = "confirm"
        /\ resp'.ok
        /\ resp'.order_id \in DOMAIN orders
        /\ orders[resp'.order_id].order_type \in {"redeem", "load"})
       => (/\ clients' = clients
           /\ referrals' = referrals
           /\ EarnRows(ledger') = EarnRows(ledger))]_vars


\* The commission on a deposit at the tier calculate_referral_tier gives for a count.
LegacyCommission(deposit_amount, valid_referral_count) ==
    (deposit_amount * calculate_referral_tier(valid_referral_count).percentage) \div 100

\* C30: the increment of valid_referral_count takes effect before the tier
\* commission is computed: the deposit that raises the referrer's count from
\* k-1 to k writes a REFERRAL_EARN at the percentage of the tier applicable
\* to k (in the configured tier table, or in the table the deposit path
\* computes tiers with), not at that of the tier applicable to k-1.
C30_CommissionAtNewCount ==
    [][(/\ ReferredDeposit
        /\ clients'[ReferrerOfDepositor].valid_referral_count
               = clients[ReferrerOfDepositor].valid_referral_count + 1)
       => \A i \in NewRows("REFERRAL_EARN") :
             ledger'[i].amount \in
                 {ConfiguredCommission(resp'.referral_calls[1].deposit_amount,
                                       clients'[ReferrerOfDepositor].valid_referral_count),
                  LegacyCommission(resp'.referral_calls[1].deposit_amount,
                                   clients'[ReferrerOfDepositor].valid_referral_count)}]_vars


\* The status changes the delivery state machine permits.
StatusMoves ==
    {<<"pending", "retrying">>, <<"pending", "delivered">>, <<"pending", "failed">>,
     <<"retrying", "retrying">>, <<"retrying", "delivered">>, <<"retrying", "failed">>}

\* C31: the status of a delivery only moves along pending -> retrying ->
\* delivered | failed: a status of delivered or failed never changes again,
\* and the status is failed only once the last permitted attempt has failed.
C31_StatusMovesForward ==
    [][\A d \in DOMAIN api_webhook_deliveries :
          /\ \/ api_webhook_deliveries'[d].status = api_webhook_deliveries[d].status
             \/ <<api_webhook_deliveries[d].status, api_webhook_deliveries'[d].status>>
                    \in StatusMoves
          /\ api_webhook_deliveries'[d].status = "failed"
                => api_webhook_deliveries'[d].attempt_count = webhook_retry_attempts]_vars


\* The client whose referral code is the code.
OwnerOfCode(code) == CHOOSE c \in DOMAIN clients : clients[c].referral_code = code

\* C32: after any interleaving of apply_referral_code calls, each client has
\* at most one referral record, the referred_by_code of a client that has a
\* record names the referrer of the record (once no call is in progress) and
\* never changes once it is set, and no two clients are each other's referrer.
C32_OneReferrerForEver ==
    [][/\ \A c \in DOMAIN clients :
             clients[c].referred_by_code # None
                 => clients'[c].referred_by_code = clients[c].referred_by_code
       /\ AllRequestsDone'
             => \A c \in DOMAIN clients :
                   /\ (referrals'[c] # NoReferral) = (clients'[c].referred_by_code # None)
                   /\ referrals'[c] # NoReferral
                         => referrals'[c].referrer_client_id
                                = OwnerOfCode(clients'[c].referred_by_code[1])
       /\ \A a, b \in DOMAIN clients :
             ~(/\ referrals'[a].referrer_client_id = b
               /\ referrals'[b].referrer_client_id = a)]_vars


\* The clients whose referral record names the referrer.
ReferredBy(referrer_id) ==
    {c \in DOMAIN referrals : referrals[c].referrer_client_id = referrer_id}

\* C38: whenever no apply_referral_code call is in progress, the
\* referral_count of every client is the number of referral records that
\* name it as referrer.
C38_CountIsRecords ==
    AllRequestsDone
        => \A c \in DOMAIN clients :
              clients[c].referral_count = Cardinality(ReferredBy(c))


\* C33: once the status of a ledger transaction is confirmed or rejected its
\* amount never changes again, however an edit request interleaves with a
\* confirm or reject request on the same order.
C33_SettledAmountKept ==
    [][\A i \in DOMAIN ledger :
          ledger[i].status \in {"confirmed", "rejected"}
              => ledger'[i].amount = ledger[i].amount]_vars

\* ------------------------------------------------ the settings cache, by statement
\* utils.py 49-96 and settings_routes.py 112-170, with the other calls of the
\* event loop running at each await.

\* _settings_cache["ttl_seconds"]
ttl_seconds == 60

\* The clock moves in steps of half the ttl, MaxTicks times at most.
MaxTicks == 3

tick ==
    /\ clock < MaxTicks * (ttl_seconds \div 2)
    /\ clock' = clock + ttl_seconds \div 2
    /\ UNCHANGED <<backendTables, orderTables, webhookTables, settings, procs, settings_cache,
                   resp>>

\* What get_global_settings returns: the settings, whether they came from the
\* cache, and the time the call read on entry.
SettingsRead(read_settings, cached, now) ==
    [kind |-> "get_global_settings", order_id |-> 0, ok |-> TRUE, referral_calls |-> << >>,
     settings |-> read_settings, cached |-> cached, now |-> now]

\* The first free place among the calls in progress.
FreeCall == CHOOSE r \in 1..MaxProcs : r \notin DOMAIN procs

Without(calls, r) == [q \in DOMAIN calls \ {r} |-> calls[q]]

\* get_global_settings up to its await: a fresh cache entry is returned at
\* once, otherwise the call goes on to read the row.
start_get_global_settings ==
    LET now == clock
    IN IF /\ settings_cache.data # None
          /\ settings_cache.fetched_at # None
          /\ now - settings_cache.fetched_at[1] < ttl_seconds
       THEN /\ resp' = SettingsRead(settings_cache.data[1], TRUE, now)
            /\ UNCHANGED <<cacheState, backendTables, orderTables, webhookTables, settings,
                           procs>>
       ELSE /\ Cardinality(DOMAIN procs) < MaxProcs
            /\ procs' = procs @@ (FreeCall :> [kind |-> "get_global_settings",
                                               pc |-> "fetch_one", now |-> now,
                                               settings |-> None])
            /\ UNCHANGED <<cacheState, backendTables, orderTables, webhookTables, settings,
                           resp>>

\* The rest of get_global_settings: the row is read, and when the call resumes
\* it stores what it read under the time it took on entry.
get_global_settings_step(r) ==
    /\ r \in DOMAIN procs
    /\ procs[r].kind = "get_global_settings"
    /\ \/ /\ procs[r].pc = "fetch_one"
          /\ procs' = [procs EXCEPT ![r] = [@ EXCEPT !.pc = "store",
                                                     !.settings = Some(settings)]]
          /\ UNCHANGED <<cacheState, resp>>
       \/ /\ procs[r].pc = "store"
          /\ settings_cache' = [data |-> procs[r].settings,
                                fetched_at |-> Some(procs[r].now)]
          /\ resp' = SettingsRead(procs[r].settings[1], FALSE, procs[r].now)
          /\ procs' = Without(procs, r)
          /\ UNCHANGED clock
    /\ UNCHANGED <<backendTables, orderTables, webhookTables, settings>>

\* settings_routes.update_referral_tiers up to its await: a rejected table
\* raises, an accepted one goes on to the write.
start_update_referral_tiers(tiers) ==
    IF \/ tiers = << >>
       \/ ~\E i \in DOMAIN tiers : tiers[i].min_referrals = 0
       \/ \E i \in DOMAIN tiers :
             tiers[i].commission_percentage < 0 \/ tiers[i].min_referrals < 0
    THEN /\ resp' = SettingsUpdated(FALSE)
         /\ UNCHANGED <<cacheState, backendTables, orderTables, webhookTables, settings, procs>>
    ELSE /\ Cardinality(DOMAIN procs) < MaxProcs
         /\ procs' = procs @@ (FreeCall :> [kind |-> "update_referral_tiers",
                                            pc |-> "update_one",
                                            tiers |-> SortedAndNumbered(tiers)])
         /\ UNCHANGED <<cacheState, backendTables, orderTables, webhookTables, settings, resp>>

\* The rest of update_referral_tiers: the write, then invalidate_settings_cache
\* once the call resumes.
update_referral_tiers_step(r) ==
    /\ r \in DOMAIN procs
    /\ procs[r].kind = "update_referral_tiers"
    /\ \/ /\ procs[r].pc = "update_one"
          /\ settings' = [settings EXCEPT !.referral_tier_config = procs[r].tiers]
          /\ procs' = [procs EXCEPT ![r] = [@ EXCEPT !.pc = "invalidate_settings_cache"]]
          /\ UNCHANGED <<cacheState, resp>>
       \/ /\ procs[r].pc = "invalidate_settings_cache"
          /\ settings_cache' = invalidate_settings_cache
          /\ resp' = SettingsUpdated(TRUE)
          /\ procs' = Without(procs, r)
          /\ UNCHANGED <<settings, clock>>
    /\ UNCHANGED <<backendTables, orderTables, webhookTables>>

NextCache ==
    \/ tick
    \/ start_get_global_settings
    \/ \E r \in 1..MaxProcs : get_global_settings_step(r)
    \/ \E t \in TierInputs : start_update_referral_tiers(t)
    \/ \E r \in 1..MaxProcs : update_referral_tiers_step(r)

SpecCache == Init /\ [][NextCache]_vars

\* No update_referral_tiers call stands between its write and its return.
NoWriteInProgress == \A r \in DOMAIN procs : procs[r].kind # "update_referral_tiers"

\* The step is a get_global_settings call served from the cache.
ServedFromCache ==
    /\ resp' # resp
    /\ resp'.kind = "get_global_settings"
    /\ resp'.cached

\* C34: a get_global_settings call made when no settings write is in progress
\* returns the values the last write stored, also when it is served from a
\* cache that another call filled around that write; and a cached value is
\* served less than ttl_seconds after the time it was fetched at.
C34_CacheServesWrittenValues ==
    [][ServedFromCache
       => /\ NoWriteInProgress => resp'.settings = settings
          /\ resp'.now - settings_cache.fetched_at[1] < ttl_seconds]_vars

\* The part of C34 about the age of what the cache serves.
CacheServedWithinTtl ==
    [][ServedFromCache => resp'.now - settings_cache.fetched_at[1] < ttl_seconds]_vars


RECURSIVE MilestoneTotal(_, _)
MilestoneTotal(milestones, valid_referral_count) ==
    IF milestones = << >> THEN 0
    ELSE (IF Head(milestones).referrals_required <= valid_referral_count
          THEN Head(milestones).bonus_amount ELSE 0)
         + MilestoneTotal(Tail(milestones), valid_referral_count)

\* C36: deposits being confirmed one after the other, the BONUS_EARN rows of
\* a referrer never add up to more than the bonus amounts of the configured
\* milestones that its valid_referral_count has reached.
C36_BonusWithinMilestones ==
    \A c \in DOMAIN clients :
        GroupTotal(ledger, c, "confirmed", "BONUS_EARN")
            <= MilestoneTotal(settings.bonus_rules.milestones, clients[c].valid_referral_count)


\* ------------------------------------------- several orders pending at once
\* Deposits, withdrawals and loads of one client, created while earlier
\* orders still wait for their confirmation.
MaxPendingOrders == 3

PendingOrderIds == 1..MaxPendingOrders

PendingAmounts == {100}

RoomForOrder == Cardinality(DOMAIN orders) < MaxPendingOrders

\* The create handlers while the orders table holds fewer than MaxPendingOrders.
cash_in_request(client_id, amount) == RoomForOrder /\ CreateCashIn(client_id, amount)

cash_out_request(client_id, amount) == RoomForOrder /\ CreateCashOut(client_id, amount)

load_request(client_id, amount, wallet_type) ==
    RoomForOrder /\ CreateLoad(client_id, amount, wallet_type)

portal_load_request(client_id, amount, wallet_type) ==
    RoomForOrder /\ LoadToGame(client_id, amount, wallet_type)

NextPending ==
    \/ \E c \in ClientIds, a \in PendingAmounts : cash_in_request(c, a)
    \/ \E c \in ClientIds, a \in PendingAmounts : cash_out_request(c, a)
    \/ \E c \in ClientIds, a \in PendingAmounts, w \in WalletTypes : load_request(c, a, w)
    \/ \E c \in ClientIds, a \in PendingAmounts, w \in WalletTypes : portal_load_request(c, a, w)
    \/ \E o \in PendingOrderIds : confirm_cash_in(o)
    \/ \E o \in PendingOrderIds : confirm_cash_out(o)
    \/ \E o \in PendingOrderIds : confirm_load(o)

SpecPending == Init /\ [][NextPending]_vars

\* C37: withdrawals and loads being created by create_cash_out, create_load
\* and load_to_game and then confirmed, the unclamped real-wallet sum of every
\* client stays at 0 or above, however many orders are pending at once.
C37_RealSumNotNegative ==
    \A c \in DOMAIN clients : UnclampedReal(c) >= 0


\* The step is a POST of the deliver_webhook task of delivery d.
Posts(d) ==
    /\ d \in DOMAIN delivery_tasks'
    /\ delivery_tasks[d].pc = "post"
    /\ delivery_tasks'[d].posts = delivery_tasks[d].posts + 1

\* C39: no attempt is POSTed to a webhook whose is_active is false: once the
\* webhook is disabled or deleted, the deliveries still in flight, their
\* pending retries included, make no further POST.
C39_NoPostToInactive ==
    [][\A d \in DOMAIN delivery_tasks :
          Posts(d) => api_webhooks[api_webhook_deliveries[d].webhook_id].is_active]_vars

\* The part of C39 about retries: an attempt after the first is not POSTed
\* to a webhook whose is_active is false.
NoRetryToInactive ==
    [][\A d \in DOMAIN delivery_tasks :
          Posts(d) /\ delivery_tasks[d].attempt > 1
             => api_webhooks[api_webhook_deliveries[d].webhook_id].is_active]_vars


\* --------------------------------------------- create_order, by statement
\* order_service.create_order, each step one awaited statement, with the
\* other calls of the event loop running in between.  A call that returned
\* keeps its place with what it returned.
start_create_order(user_id, game_name, recharge_amount, idempotency_key) ==
    /\ Cardinality(DOMAIN procs) < MaxProcs
    /\ procs' = procs @@ ((Cardinality(DOMAIN procs) + 1) :>
           [user_id |-> user_id, game_name |-> game_name, recharge_amount |-> recharge_amount,
            idempotency_key |-> idempotency_key, pc |-> "check_idempotency", order_id |-> 0,
            result |-> None])
    /\ UNCHANGED <<cacheState, backendTables, orderTables, webhookTables, settings, resp>>

\* The call returns (or raises): its place keeps the result.
Returns(p, response) == [p EXCEPT !.pc = "done", !.result = Some(response)]

\* One statement of the call p on the tables api: the tables and the call afterwards.
CreateOrderStep(api, p) ==
    LET existing == OrdersByKey(api.api_orders, p.idempotency_key)
        order_id == Len(api.api_orders) + 1
        row == [order_id |-> order_id, user_id |-> p.user_id, game_name |-> p.game_name,
                recharge_amount |-> p.recharge_amount, status |-> "pending",
                idempotency_key |-> p.idempotency_key]
    IN CASE p.pc = "check_idempotency" ->
              [api |-> api,
               proc |-> IF TruthyStr(p.idempotency_key) /\ existing # {}
                        THEN Returns(p, ApiResponse(TRUE,
                                 api.api_orders[CHOOSE i \in existing : TRUE].order_id,
                                 p.idempotency_key, ""))
                        ELSE [p EXCEPT !.pc = "validate_order"]]
         [] p.pc = "validate_order" ->
              [api |-> api,
               proc |-> IF ~validate_order(p.game_name, p.recharge_amount)
                        THEN Returns(p, ApiResponse(FALSE, 0, p.idempotency_key, "validation"))
                        ELSE [p EXCEPT !.pc = "insert"]]
         [] p.pc = "insert" ->
              IF p.idempotency_key # None /\ existing # {}
              THEN [api |-> api,
                    proc |-> Returns(p, ApiResponse(FALSE, 0, p.idempotency_key,
                                                    "UniqueViolationError"))]
              ELSE [api |-> [api EXCEPT !.api_orders = Append(@, row)],
                    proc |-> [p EXCEPT !.pc = "log_audit", !.order_id = order_id]]
         [] p.pc = "log_audit" ->
              [api |-> [api EXCEPT !.api_audit_logs = Append(@,
                           [user_id |-> p.user_id, action |-> "order.created",
                            resource_id |-> p.order_id])],
               proc |-> [p EXCEPT !.pc = "fetch_order"]]
         [] p.pc = "fetch_order" ->
              [api |-> api,
               proc |-> Returns(p, ApiResponse(TRUE, p.order_id, p.idempotency_key, ""))]
         [] OTHER -> [api |-> api, proc |-> p]

create_order_step(r) ==
    /\ r \in DOMAIN procs
    /\ procs[r].pc # "done"
    /\ LET step == CreateOrderStep([api_orders |-> api_orders,
                                    api_audit_logs |-> api_audit_logs], procs[r])
       IN /\ api_orders' = step.api.api_orders
          /\ api_audit_logs' = step.api.api_audit_logs
          /\ procs' = [procs EXCEPT ![r] = step.proc]
          /\ resp' = IF step.proc.pc = "done" THEN step.proc.result[1] ELSE resp
    /\ UNCHANGED <<cacheState, backendTables, webhookTables, settings>>

NextCreate ==
    \/ \E u \in ApiUsers, g \in GameNameInputs, k \in IdempotencyKeys :
           start_create_order(u, g, 20, k)
    \/ \E r \in 1..MaxProcs : create_order_step(r)

SpecCreate == Init /\ [][NextCreate]_vars

\* Two calls that have returned, both with the same key (present and not
\* empty) and both for an order that validates.
SameKeyCalls ==
    {pair \in (DOMAIN procs) \X (DOMAIN procs) :
        /\ pair[1] # pair[2]
        /\ procs[pair[1]].pc = "done" /\ procs[pair[2]].pc = "done"
        /\ procs[pair[1]].idempotency_key = procs[pair[2]].idempotency_key
        /\ TruthyStr(procs[pair[1]].idempotency_key)
        /\ validate_order(procs[pair[1]].game_name, procs[pair[1]].recharge_amount)
        /\ validate_order(procs[pair[2]].game_name, procs[pair[2]].recharge_amount)}

\* C40: two create_order calls made with the same idempotency_key, however
\* their statements interleave, leave exactly one api_orders row with that
\* key and both return success with the order_id of that row.
C40_SameKeySameOrder ==
    \A pair \in SameKeyCalls :
        LET first == procs[pair[1]].result[1]
            second == procs[pair[2]].result[1]
        IN /\ Cardinality(OrdersByKey(api_orders, procs[pair[1]].idempotency_key)) = 1
           /\ first.ok /\ second.ok
           /\ first.order_id = second.order_id

\* The part of C40 about the table: one row with the key.
OneRowPerKey ==
    \A pair \in SameKeyCalls :
        Cardinality(OrdersByKey(api_orders, procs[pair[1]].idempotency_key)) = 1

====
